---- MODULE Spec2Model ----
(***************************************************************************)
(* A model of ukmm's deployment manager (crates/uk-manager/src/deploy.rs,  *)
(* deploy/folder.rs, deploy/file.rs, deploy/pending_log.rs) and of the     *)
(* ShopData patch algebra (uk-content/src/actor/shop.rs), of the diff and  *)
(* merge of the records in crates/uk-content/src (eco/status.rs,           *)
(* map/static_.rs, map/mainfield), and of the decoders of ShopData,        *)
(* Recipe (actor/params/recipe.rs) and CDungeon Static.                    *)
(*                                                                         *)
(* A path is a sequence of path segments (what PathBuf::iter yields).  A   *)
(* directory tree on disk is a record [dirs, files]: the set of paths that *)
(* are directories and a function from the paths that are regular files to *)
(* their [data, mtime].  The root of a tree is the empty path.             *)
(***************************************************************************)
EXTENDS Integers, Sequences, FiniteSets, TLC

VARIABLES
    merged,      \* staging trees: [content, aoc], each a directory tree
    output,      \* deployed trees: [content, aoc]
    pending_log, \* Manager.pending_log: the four Folder trees
    checkpoint,  \* the pending.yml document on disk
    last,        \* what the last call was given and what it returned
    calls        \* the number of calls made so far

vars == <<merged, output, pending_log, checkpoint, last, calls>>

----------------------------------------------------------------------------
(* Path segments.  A segment "contains a dot" or not: that is all           *)
(* Folder::extend_iter looks at.                                            *)

DotNames == {"x.bin", "y.bin", "ResourceSizeTable.product.srsizetable"}
PlainNames == {"A", "B", "System", "Resource"}

HasDot(name) == name \in DotNames

RSTB_PATH == <<"System", "Resource", "ResourceSizeTable.product.srsizetable">>

Parent(p) == SubSeq(p, 1, Len(p) - 1)
Last(p) == p[Len(p)]
IsPrefix(p, q) == Len(p) <= Len(q) /\ SubSeq(q, 1, Len(p)) = p

\* BTreeSet<String> iterates in byte order of the joined string; PathOrder
\* lists the paths the model uses in that order ('.' < '/' < 'A' < 'x').
PathOrder ==
    << <<"A", "B">>,
       <<"A", "B", "x.bin">>,
       <<"A", "x.bin">>,
       <<"A", "y.bin">>,
       <<"System", "Resource", "ResourceSizeTable.product.srsizetable">>,
       <<"x.bin">>,
       <<"y.bin">> >>

Rank(p) == CHOOSE i \in 1..Len(PathOrder) : PathOrder[i] = p

\* The elements of a path set in BTreeSet iteration order.
RECURSIVE Sorted(_)
Sorted(S) ==
    IF S = {} THEN <<>>
    ELSE LET m == CHOOSE p \in S : \A q \in S : Rank(p) <= Rank(q)
         IN <<m>> \o Sorted(S \ {m})

\* F of the value v, with v computed once.
With(v, F(_)) == CHOOSE r \in {F(y) : y \in {v}} : TRUE

----------------------------------------------------------------------------
(* Folder (deploy/folder.rs): folders is a function from names to Folder,   *)
(* files a set of names.                                                    *)

NoFolders == [n \in {} |-> {}]
EmptyFolder == [folders |-> NoFolders, files |-> {}]

Put(f, k, v) == [n \in (DOMAIN f) \cup {k} |-> IF n = k THEN v ELSE f[n]]

has_some(folder) == folder.files # {} \/ DOMAIN folder.folders # {}

RECURSIVE len(_)
len(folder) ==
    LET RECURSIVE Sum(_)
        Sum(S) == IF S = {} THEN 0
                  ELSE LET n == CHOOSE n \in S : TRUE
                       IN len(folder.folders[n]) + Sum(S \ {n})
    IN Cardinality(folder.files) + Sum(DOMAIN folder.folders)

\* Folder::extend_iter.  The segments of the path are consumed one by one;
\* the first that contains a dot is inserted as a file and ends the walk.
\* Running out of segments is the error; the folders inserted on the way
\* stay, since the walk mutates in place.
RECURSIVE extend_iter(_, _)
extend_iter(folder, iter) ==
    IF iter = <<>> THEN [ok |-> FALSE, folder |-> folder]
    ELSE IF HasDot(Head(iter))
    THEN [ok |-> TRUE,
          folder |-> [folder EXCEPT !.files = @ \cup {Head(iter)}]]
    ELSE With(extend_iter(IF Head(iter) \in DOMAIN folder.folders
                          THEN folder.folders[Head(iter)] ELSE EmptyFolder,
                          Tail(iter)),
              LAMBDA r :
                [ok |-> r.ok,
                 folder |-> [folder EXCEPT
                                !.folders = Put(@, Head(iter), r.folder)]])

\* Folder::extend: the paths in set order, stopping at the first error.
RECURSIVE ExtendSeq(_, _)
ExtendSeq(folder, paths) ==
    IF paths = <<>> THEN [ok |-> TRUE, folder |-> folder]
    ELSE With(extend_iter(folder, Head(paths)),
              LAMBDA r : IF r.ok THEN ExtendSeq(r.folder, Tail(paths)) ELSE r)

extend(folder, other) == ExtendSeq(folder, Sorted(other))

\* The file paths of a Folder: directory names followed by the file name.
RECURSIVE FilePaths(_)
FilePaths(folder) ==
    {<<f>> : f \in folder.files}
    \cup UNION {{<<d>> \o p : p \in FilePaths(folder.folders[d])}
                : d \in DOMAIN folder.folders}

----------------------------------------------------------------------------
(* Directory trees on disk.                                                 *)

NoFiles == [p \in {} |-> {}]
NoTree == [dirs |-> {}, files |-> NoFiles]        \* the root does not exist

IsFile(t, p) == p \in DOMAIN t.files
IsDir(t, p) == p \in t.dirs
Exists(t, p) == IsFile(t, p) \/ IsDir(t, p)

Entries(t) == t.dirs \cup DOMAIN t.files

\* Path::read_dir: the entries directly under p.
ReadDir(t, p) == {q \in Entries(t) : Len(q) = Len(p) + 1 /\ IsPrefix(p, q)}

Prefixes(p) == {SubSeq(p, 1, n) : n \in 0..Len(p)}

RemoveFile(t, p) ==
    [t EXCEPT !.files = [q \in (DOMAIN t.files) \ {p} |-> t.files[q]]]

RemoveDir(t, p) == [t EXCEPT !.dirs = @ \ {p}]

\* util::remove_dir_all: p and everything under it.
RemoveDirAll(t, p) ==
    [dirs |-> {q \in t.dirs : ~IsPrefix(p, q)},
     files |-> [q \in {q \in DOMAIN t.files : ~IsPrefix(p, q)} |-> t.files[q]]]

CreateDir(t, p) == [t EXCEPT !.dirs = @ \cup {p}]
CreateDirAll(t, p) == [t EXCEPT !.dirs = @ \cup Prefixes(p)]

\* fs::write / fs::copy onto p: the file is created or replaced.
WriteFile(t, p, rec) ==
    [t EXCEPT !.files = [q \in (DOMAIN t.files) \cup {p} |->
                            IF q = p THEN rec ELSE t.files[q]]]

----------------------------------------------------------------------------
(* Comparing the staging tree with the deployed tree (deploy/file.rs,       *)
(* deploy/folder.rs).                                                       *)

\* metadata()?.modified()? of an entry.  The model keeps no time for a
\* directory: dir_time is the one the call finds.
Modified(t, p, dir_time) == IF IsFile(t, p) THEN t.files[p].mtime ELSE dir_time

\* should_move that only looks whether the file is missing.
should_move_missing_only(from, to, p, dir_time) ==
    Exists(from, p) /\ ~Exists(to, p)

\* File::should_move, for the file at path p of both trees.
should_move(from, to, p, dir_time) ==
    IF ~Exists(from, p) THEN FALSE
    ELSE IF ~Exists(to, p) THEN TRUE
    ELSE IF Modified(from, p, dir_time) # Modified(to, p, dir_time) THEN TRUE
    ELSE FALSE

\* File::should_delete.
should_delete(from, based_on, p) == Exists(from, p) /\ ~Exists(based_on, p)

\* The Folder made of the files kept in a directory and of the Folders of
\* its subdirectories: a subdirectory is inserted only if its Folder
\* has_some.
MakeFolder(files, sub) ==
    [folders |-> [n \in {Last(q) : q \in {q \in DOMAIN sub : has_some(sub[q])}} |->
                     sub[CHOOSE q \in DOMAIN sub : Last(q) = n]],
     files |-> {Last(q) : q \in files}]

\* Folder::compile_moves(from, to) for the directory at path p of both
\* trees.
RECURSIVE compile_moves(_, _, _, _)
compile_moves(from, to, p, dir_time) ==
    IF ~Exists(from, p) THEN EmptyFolder
    ELSE MakeFolder(
            {q \in ReadDir(from, p) :
                IsFile(from, q) /\ should_move(from, to, q, dir_time)},
            [q \in {q \in ReadDir(from, p) : IsDir(from, q)} |->
                compile_moves(from, to, q, dir_time)])

\* Folder::compile_deletes(from, based_on) for the directory at path p.
RECURSIVE compile_deletes(_, _, _)
compile_deletes(from, based_on, p) ==
    IF ~Exists(from, p) THEN EmptyFolder
    ELSE MakeFolder(
            {q \in ReadDir(from, p) :
                IsFile(from, q) /\ should_delete(from, based_on, q)},
            [q \in {q \in ReadDir(from, p) : IsDir(from, q)} |->
                compile_deletes(from, based_on, q)])

\* PendingLog::try_from((source_content, source_aoc, dest_content, dest_aoc)).
CompileLog(source, dest, dir_time) ==
    [content_copies |-> compile_moves(source.content, dest.content, <<>>, dir_time),
     aoc_copies |-> compile_moves(source.aoc, dest.aoc, <<>>, dir_time),
     content_deletes |-> compile_deletes(dest.content, source.content, <<>>),
     aoc_deletes |-> compile_deletes(dest.aoc, source.aoc, <<>>)]

----------------------------------------------------------------------------
(* Executing a Folder against the deployed tree (deploy/folder.rs,          *)
(* deploy/file.rs).  A result is [ok, tree, err]: the deployed tree as the  *)
(* operation left it and, when it failed, the error.  The entries of one    *)
(* level are taken one after the other; an error ends the walk.             *)

NoErr == [cause |-> "none", code |-> 0, cross |-> FALSE]

\* The OS error numbers std::io::Error carries, by platform and cause.
OsError ==
    [unix |-> [cross_volume |-> 18, is_dir |-> 21, not_dir |-> 20,
               denied |-> 13, not_permitted |-> 1, exists |-> 17],
     windows |-> [cross_volume |-> 17, is_dir |-> 5, not_dir |-> 3,
                  denied |-> 5, not_permitted |-> 5, exists |-> 183]]

IoErr(env, cause) ==
    [cause |-> cause, code |-> OsError[env.platform][cause], cross |-> FALSE]

Ok(t) == [ok |-> TRUE, tree |-> t, err |-> NoErr]
Fail(t, e) == [ok |-> FALSE, tree |-> t, err |-> e]

\* "os error 17" is contained in the message "... (os error <code>)": the
\* decimal digits of the code start with 17.
RECURSIVE StartsWith17(_)
StartsWith17(code) ==
    IF code < 17 THEN FALSE
    ELSE IF code = 17 THEN TRUE
    ELSE StartsWith17(code \div 10)

\* The map_err of File::hard_link: the cross-volume context is added to the
\* error whose root cause names os error 17.
LinkError(e) == [e EXCEPT !.cross = StartsWith17(e.code)]

\* Folder::delete that only warns about a listed file.
DeleteFileWarnOnly(env, t, p) ==
    IF IsDir(t, p) THEN Fail(t, IoErr(env, "is_dir")) ELSE Ok(t)

\* The file at path p of the deployed tree in Folder::delete.
DeleteFile(env, t, p) ==
    IF IsDir(t, p) THEN Fail(t, IoErr(env, "is_dir"))
    ELSE IF IsFile(t, p) THEN Ok(RemoveFile(t, p))
    ELSE Ok(t)

\* std::fs::copy that refuses to write over an existing file.
fs_copy_create_new(env, from, to, p) ==
    IF IsDir(from, p) \/ IsDir(to, p) THEN Fail(to, IoErr(env, "is_dir"))
    ELSE IF ~IsDir(to, Parent(p)) THEN Fail(to, IoErr(env, "not_dir"))
    ELSE IF IsFile(to, p) THEN Fail(to, IoErr(env, "exists"))
    ELSE Ok(WriteFile(to, p, [from.files[p] EXCEPT !.mtime = env.now]))

\* std::fs::copy(old, new): the contents are written over whatever file is
\* at new; the modification time is that of the write.
fs_copy(env, from, to, p) ==
    IF IsDir(from, p) \/ IsDir(to, p) THEN Fail(to, IoErr(env, "is_dir"))
    ELSE IF ~IsDir(to, Parent(p)) THEN Fail(to, IoErr(env, "not_dir"))
    ELSE Ok(WriteFile(to, p, [from.files[p] EXCEPT !.mtime = env.now]))

\* File::options().write(true).open(new)?.set_modified(old's time).
set_modified(env, from, to, p) ==
    IF ~IsFile(to, p) \/ ~IsFile(from, p) THEN Fail(to, IoErr(env, "is_dir"))
    ELSE Ok(WriteFile(to, p, [to.files[p] EXCEPT !.mtime = from.files[p].mtime]))

\* File::copy.
CopyFile(env, from, to, p) ==
    IF Exists(from, p)
    THEN With(fs_copy(env, from, to, p),
              LAMBDA copied : IF ~copied.ok THEN copied
                              ELSE set_modified(env, from, copied.tree, p))
    ELSE DeleteFile(env, to, p)

\* std::fs::hard_link(old, new): new becomes another name of old's file.
fs_hard_link(env, from, to, p) ==
    IF IsDir(from, p) THEN Fail(to, IoErr(env, "not_permitted"))
    ELSE IF Exists(to, p) THEN Fail(to, IoErr(env, "exists"))
    ELSE IF ~IsDir(to, Parent(p)) THEN Fail(to, IoErr(env, "not_dir"))
    ELSE IF ~env.same_volume THEN Fail(to, IoErr(env, "cross_volume"))
    ELSE Ok(WriteFile(to, p, from.files[p]))

\* The second half of File::hard_link: the link, with its map_err.
LinkFile(env, from, to, p) ==
    IF ~Exists(from, p) THEN Ok(to)
    ELSE With(fs_hard_link(env, from, to, p),
              LAMBDA linked : IF linked.ok THEN linked
                              ELSE Fail(linked.tree, LinkError(linked.err)))

\* File::hard_link.
HardLinkFile(env, from, to, p) ==
    With(DeleteFile(env, to, p),
         LAMBDA removed : IF ~removed.ok THEN removed
                          ELSE LinkFile(env, from, removed.tree, p))

RECURSIVE FolderDelete(_, _, _, _), DeleteFiles(_, _, _, _),
          DeleteFolders(_, _, _, _, _), DeleteFolder(_, _, _, _)

\* Folder::delete(path): the files, then the folders.
FolderDelete(env, t, folder, path) ==
    With(DeleteFiles(env, t, folder.files, path),
         LAMBDA files :
            IF ~files.ok THEN files
            ELSE DeleteFolders(env, files.tree, folder, DOMAIN folder.folders,
                               path))

DeleteFiles(env, t, names, path) ==
    IF names = {} THEN Ok(t)
    ELSE With(CHOOSE n \in names : TRUE,
              LAMBDA n :
                With(DeleteFile(env, t, path \o <<n>>),
                     LAMBDA r : IF r.ok
                                THEN DeleteFiles(env, r.tree, names \ {n}, path)
                                ELSE r))

\* One listed folder: if it exists it is emptied of what its Folder lists
\* and removed if nothing is left in it; read_dir fails on a regular file.
DeleteFolder(env, t, folder, folder_path) ==
    IF ~Exists(t, folder_path) THEN Ok(t)
    ELSE IF IsFile(t, folder_path) THEN Fail(t, IoErr(env, "not_dir"))
    ELSE With(FolderDelete(env, t, folder, folder_path),
              LAMBDA inner :
                IF inner.ok /\ ReadDir(inner.tree, folder_path) = {}
                THEN Ok(RemoveDir(inner.tree, folder_path))
                ELSE inner)

DeleteFolders(env, t, folder, names, path) ==
    IF names = {} THEN Ok(t)
    ELSE With(CHOOSE n \in names : TRUE,
              LAMBDA n :
                With(DeleteFolder(env, t, folder.folders[n], path \o <<n>>),
                     LAMBDA r :
                        IF r.ok
                        THEN DeleteFolders(env, r.tree, folder, names \ {n}, path)
                        ELSE r))

RECURSIVE FolderCopy(_, _, _, _, _, _), CopyFiles(_, _, _, _, _, _),
          CopyFolders(_, _, _, _, _, _, _), CopyFolder(_, _, _, _, _, _)

\* Folder::copy and Folder::hard_link(from, to): the files, then the
\* folders.  method is "copy" or "hard_link".
FolderCopy(env, method, from, to, folder, path) ==
    With(CopyFiles(env, method, from, to, folder.files, path),
         LAMBDA files :
            IF ~files.ok THEN files
            ELSE CopyFolders(env, method, from, files.tree, folder,
                             DOMAIN folder.folders, path))

CopyFiles(env, method, from, to, names, path) ==
    IF names = {} THEN Ok(to)
    ELSE With(CHOOSE n \in names : TRUE,
              LAMBDA n :
                With(IF method = "copy"
                     THEN CopyFile(env, from, to, path \o <<n>>)
                     ELSE HardLinkFile(env, from, to, path \o <<n>>),
                     LAMBDA r :
                        IF r.ok
                        THEN CopyFiles(env, method, from, r.tree, names \ {n}, path)
                        ELSE r))

\* One listed folder: it is created if nothing exists at its path
\* (create_dir fails under a regular file), then its Folder is copied into
\* it.
CopyFolder(env, method, from, to, folder, new_path) ==
    IF Exists(to, new_path)
    THEN FolderCopy(env, method, from, to, folder, new_path)
    ELSE IF ~IsDir(to, Parent(new_path)) THEN Fail(to, IoErr(env, "not_dir"))
    ELSE FolderCopy(env, method, from, CreateDir(to, new_path), folder, new_path)

CopyFolders(env, method, from, to, folder, names, path) ==
    IF names = {} THEN Ok(to)
    ELSE With(CHOOSE n \in names : TRUE,
              LAMBDA n :
                With(CopyFolder(env, method, from, to, folder.folders[n],
                                path \o <<n>>),
                     LAMBDA r :
                        IF r.ok
                        THEN CopyFolders(env, method, from, r.tree, folder,
                                         names \ {n}, path)
                        ELSE r))

----------------------------------------------------------------------------
(* Manifests and the pending log.                                           *)

Manifest(c, a) == [content_files |-> c, aoc_files |-> a]
EmptyManifest == Manifest({}, {})

\* Manifest::extend: the union, tree by tree.
ManifestUnion(S) ==
    Manifest(UNION {m.content_files : m \in S}, UNION {m.aoc_files : m \in S})

EmptyLog ==
    [content_copies |-> EmptyFolder, aoc_copies |-> EmptyFolder,
     content_deletes |-> EmptyFolder, aoc_deletes |-> EmptyFolder]

LogHasSome(log) ==
    \/ has_some(log.content_copies) \/ has_some(log.aoc_copies)
    \/ has_some(log.content_deletes) \/ has_some(log.aoc_deletes)

LogLen(log) ==
    len(log.content_copies) + len(log.aoc_copies)
    + len(log.content_deletes) + len(log.aoc_deletes)

\* extend_copies that forgets the content tree.
extend_copies_aoc_only(log, other) ==
    With(extend(log.aoc_copies, other.aoc_files),
         LAMBDA a : [ok |-> a.ok, log |-> [log EXCEPT !.aoc_copies = a.folder]])

\* PendingLog::extend_copies: the content tree, then the aoc tree; an error
\* of the first leaves the second as it was.
extend_copies(log, other) ==
    With(extend(log.content_copies, other.content_files),
         LAMBDA c :
            IF ~c.ok
            THEN [ok |-> FALSE, log |-> [log EXCEPT !.content_copies = c.folder]]
            ELSE With(extend(log.aoc_copies, other.aoc_files),
                      LAMBDA a :
                        [ok |-> a.ok,
                         log |-> [log EXCEPT !.content_copies = c.folder,
                                             !.aoc_copies = a.folder]]))

\* PendingLog::extend_deletes.
extend_deletes(log, other) ==
    With(extend(log.content_deletes, other.content_files),
         LAMBDA c :
            IF ~c.ok
            THEN [ok |-> FALSE, log |-> [log EXCEPT !.content_deletes = c.folder]]
            ELSE With(extend(log.aoc_deletes, other.aoc_files),
                      LAMBDA a :
                        [ok |-> a.ok,
                         log |-> [log EXCEPT !.content_deletes = c.folder,
                                             !.aoc_deletes = a.folder]]))

\* PendingLog::add_rstb.
add_rstb(log) ==
    With(extend_iter(log.content_copies, RSTB_PATH),
         LAMBDA r : [ok |-> r.ok, log |-> [log EXCEPT !.content_copies = r.folder]])

\* All orders in which the elements of S can be taken.
RECURSIVE Perms(_)
Perms(S) ==
    IF S = {} THEN {<<>>}
    ELSE UNION {{<<x>> \o q : q \in Perms(S \ {x})} : x \in S}

\* RemoveOrphan without the look into the parent directory: the parent is
\* removed with whatever it still holds.
RemoveOrphanNoCheck(t, f) ==
    IF IsDir(t, f) THEN [ok |-> FALSE, tree |-> t]
    ELSE [ok |-> TRUE, tree |-> RemoveDirAll(t, Parent(f))]

\* One orphan of handle_orphans' loop: the file is removed if it exists
\* (fs::remove_file fails on a directory), then its parent directory is
\* removed if it can be read and has no entry left.
RemoveOrphan(t, f) ==
    IF IsDir(t, f) THEN [ok |-> FALSE, tree |-> t]
    ELSE With(IF IsFile(t, f) THEN RemoveFile(t, f) ELSE t,
              LAMBDA t1 :
                [ok |-> TRUE,
                 tree |-> IF IsDir(t1, Parent(f)) /\ ReadDir(t1, Parent(f)) = {}
                          THEN RemoveDirAll(t1, Parent(f)) ELSE t1])

\* The orphans of one tree, in the order the parallel iterator takes them.
RECURSIVE RemoveOrphans(_, _)
RemoveOrphans(t, order) ==
    IF order = <<>> THEN [ok |-> TRUE, tree |-> t]
    ELSE With(RemoveOrphan(t, Head(order)),
              LAMBDA r : IF r.ok THEN RemoveOrphans(r.tree, Tail(order)) ELSE r)

\* Manager::handle_orphans.  order_c and order_a are the orders in which the
\* orphans of the two trees are taken.
handle_orphans(log, out_dir, total_manifest, manifest, order_c, order_a) ==
    LET orphans == Manifest(manifest.content_files \ total_manifest.content_files,
                            manifest.aoc_files \ total_manifest.aoc_files)
        Res(ok, l, o) ==
            [ok |-> ok, log |-> l, out_dir |-> o,
             manifest |-> Manifest(manifest.content_files \ orphans.content_files,
                                   manifest.aoc_files \ orphans.aoc_files)]
    IN IF orphans = EmptyManifest
       THEN [ok |-> TRUE, log |-> log, out_dir |-> out_dir, manifest |-> manifest]
       ELSE With(extend_deletes(log, orphans),
                 LAMBDA ext :
                   IF ~ext.ok THEN Res(FALSE, ext.log, out_dir)
                   ELSE With(RemoveOrphans(out_dir.content, order_c),
                             LAMBDA rc :
                               IF ~rc.ok
                               THEN Res(FALSE, ext.log,
                                        [out_dir EXCEPT !.content = rc.tree])
                               ELSE With(RemoveOrphans(out_dir.aoc, order_a),
                                         LAMBDA ra :
                                           Res(ra.ok, ext.log,
                                               [content |-> rc.tree,
                                                aoc |-> ra.tree]))))

----------------------------------------------------------------------------
(* The resource size table.                                                 *)

Canons == {"r1", "r2"}

\* An update is a size (Some) or a removal (None).
SomeSize(n) == [some |-> TRUE, size |-> n]
None == [some |-> FALSE]

\* ResourceSizeTable::new_from_stock.
StockTable == [c \in {"r1"} |-> 2]

\* UpdateTable that writes every size it is given.
UpdateTableOverwrite(table, updates) ==
    LET set == {c \in DOMAIN updates : updates[c].some}
        removed == {c \in DOMAIN updates : ~updates[c].some}
    IN [c \in ((DOMAIN table) \cup set) \ removed |->
            IF c \in set THEN updates[c].size ELSE table[c]]

\* The loop of Manager::apply_rstb over the updates: a size replaces the
\* recorded one only if none is recorded or the recorded one is smaller; a
\* removal removes the entry.  The keys of a DashMap are distinct, so the
\* order of the loop does not matter.
UpdateTable(table, updates) ==
    LET set == {c \in DOMAIN updates : updates[c].some}
        removed == {c \in DOMAIN updates : ~updates[c].some}
    IN [c \in ((DOMAIN table) \cup set) \ removed |->
            IF c \in set /\ (c \notin DOMAIN table \/ table[c] < updates[c].size)
            THEN updates[c].size
            ELSE table[c]]

\* The table Manager::apply_rstb starts from: the merged one if its file
\* exists, the stock one otherwise.
ReadTable(content) ==
    IF IsFile(content, RSTB_PATH) THEN content.files[RSTB_PATH].data
    ELSE StockTable

\* Manager::apply_rstb.  write_ok is whether fs::write of the table succeeds.
apply_rstb(log, content, updates, mtime, write_ok) ==
    LET table == UpdateTable(ReadTable(content), updates)
        dirs == CreateDirAll(content, Parent(RSTB_PATH))
        written == WriteFile(dirs, RSTB_PATH, [data |-> table, mtime |-> mtime])
    IN IF ~write_ok THEN [ok |-> FALSE, log |-> log, content |-> dirs]
       ELSE With(add_rstb(log),
                 LAMBDA added :
                    [ok |-> added.ok, log |-> added.log, content |-> written])

\* ModUnpacker::unpack: the files of the manifest are written into the
\* merged trees.
RECURSIVE WriteAll(_, _, _)
WriteAll(t, paths, rec) ==
    IF paths = {} THEN t
    ELSE LET p == CHOOSE p \in paths : TRUE
         IN WriteAll(WriteFile(CreateDirAll(t, Parent(p)), p, rec),
                     paths \ {p}, rec)

unpack(out_dir, manifest, rec) ==
    [content |-> WriteAll(out_dir.content, manifest.content_files, rec),
     aoc |-> WriteAll(out_dir.aoc, manifest.aoc_files, rec)]

\* Manager::save: the pending log is written to pending.yml.
Saved(log) == [kind |-> "current", log |-> log]

----------------------------------------------------------------------------
(* Manager::apply.  `fail` names the step whose I/O fails ("none": no step  *)
(* fails); the result records the step that returned the error in `stage`.  *)

SomeManifest(m) == [some |-> TRUE, m |-> m]
NoManifest == [some |-> FALSE, m |-> EmptyManifest]

ApplyResult(log, out_dir, disk, manifest, total_manifest, order_c, order_a, updates, rec, fail) ==
    LET R(ok, stage, l, o, d, left, table) ==
            [ok |-> ok, stage |-> stage, log |-> l, out_dir |-> o, disk |-> d,
             left |-> left, table |-> table]
    IN With(IF manifest.some
            THEN handle_orphans(log, out_dir, total_manifest, manifest.m,
                                order_c, order_a)
            ELSE [ok |-> TRUE, log |-> log,
                  out_dir |-> [content |-> NoTree, aoc |-> NoTree],
                  manifest |-> total_manifest],
        LAMBDA ho :
          IF fail = "open"
          THEN R(FALSE, "open", log, out_dir, disk, ho.manifest, StockTable)
          ELSE IF ~ho.ok
          THEN R(FALSE, "handle_orphans", ho.log, ho.out_dir, disk, ho.manifest,
                 StockTable)
          ELSE With(extend_copies(ho.log, ho.manifest),
            LAMBDA ec :
              IF ~ec.ok
              THEN R(FALSE, "extend_copies", ec.log, ho.out_dir, disk,
                     ho.manifest, StockTable)
              ELSE IF fail = "unpack"
              THEN R(FALSE, "unpack", ec.log, ho.out_dir, disk, ho.manifest,
                     StockTable)
              ELSE With(unpack(ho.out_dir, ho.manifest, rec),
                LAMBDA un :
                  With(apply_rstb(ec.log, un.content, updates, rec.mtime,
                                  fail # "rstb"),
                    LAMBDA rs :
                      With([un EXCEPT !.content = rs.content],
                        LAMBDA o :
                          IF ~rs.ok
                          THEN R(FALSE, "apply_rstb", rs.log, o, disk,
                                 ho.manifest, ReadTable(un.content))
                          ELSE IF fail = "save"
                          THEN R(FALSE, "save", rs.log, o, disk, ho.manifest,
                                 ReadTable(un.content))
                          ELSE R(TRUE, "done", rs.log, o, Saved(rs.log),
                                 ho.manifest, ReadTable(un.content)))))))

apply(manifest, total_manifest, order_c, order_a, updates, rec, fail) ==
    \E r \in {ApplyResult(pending_log, merged, checkpoint, manifest,
                             total_manifest, order_c, order_a, updates, rec,
                             fail)} :
       /\ merged' = r.out_dir
       /\ pending_log' = r.log
       /\ checkpoint' = r.disk
       /\ last' = [op |-> "apply", ok |-> r.ok, stage |-> r.stage,
                   manifest |-> manifest, total |-> total_manifest,
                   left |-> r.left, updates |-> updates, table |-> r.table]
       /\ calls' = calls + 1
       /\ UNCHANGED output

----------------------------------------------------------------------------
(* The mods of the model and the states the manager starts from.            *)

ModA == Manifest({<<"x.bin">>, <<"A", "x.bin">>}, {<<"y.bin">>})
ModB == Manifest({<<"A", "x.bin">>, <<"A", "B", "x.bin">>}, {})
ModC == Manifest({<<"A", "B">>}, {})          \* a path no segment of which has a dot
Mods == {ModA, ModB, ModC}

File(d, t) == [data |-> d, mtime |-> t]

EmptyDir == [dirs |-> {<<>>}, files |-> NoFiles]

\* What is at a destination path: a real directory tree (NoTree: nothing),
\* or a symbolic link to the staging subtree ("merged"), to another
\* directory ("other") or to nothing ("dangling").
Real(t) == [link |-> "none", tree |-> t]
Link(target) == [link |-> target, tree |-> NoTree]

\* The tree a destination path leads to, links followed.
Resolve(dest, src) ==
    CASE dest.link = "none" -> dest.tree
      [] dest.link = "merged" -> src
      [] dest.link = "other" -> EmptyDir
      [] OTHER -> NoTree

Resolved(out, src) ==
    [content |-> Resolve(out.content, src.content),
     aoc |-> Resolve(out.aoc, src.aoc)]

is_symlink(dest) == dest.link # "none"
is_symlink_to(dest) == dest.link = "merged"

MaxCalls == 2
Times == {1, 2}

InitMerged == unpack([content |-> NoTree, aoc |-> NoTree],
                     ManifestUnion({ModA, ModB}), File(1, 1))

Init ==
    /\ merged = InitMerged
    /\ output = [content |-> Real(EmptyDir), aoc |-> Real(EmptyDir)]
    /\ pending_log = EmptyLog
    /\ checkpoint = Saved(EmptyLog)
    /\ last = [op |-> "new"]
    /\ calls = 0

----------------------------------------------------------------------------
(* Manager::reset_pending.  The log is cleared first; without a deployment  *)
(* config or when the comparison fails the call returns the error and the   *)
(* log stays cleared.                                                       *)

\* PendingLog::clear that keeps the delete trees.
clear_copies_only(log) ==
    [log EXCEPT !.content_copies = EmptyFolder, !.aoc_copies = EmptyFolder]

\* PendingLog::clear.
clear(log) == EmptyLog

ResetResult(log, source, out, dir_time, fail) ==
    IF fail = "none"
    THEN [ok |-> TRUE, log |-> CompileLog(source, Resolved(out, source), dir_time)]
    ELSE [ok |-> FALSE, log |-> clear(log)]

reset_pending(dir_time, fail) ==
    \E r \in {ResetResult(pending_log, merged, output, dir_time, fail)} :
       /\ pending_log' = r.log
       /\ last' = [op |-> "reset_pending", ok |-> r.ok, dir_time |-> dir_time,
                   had |-> LogLen(pending_log)]
       /\ calls' = calls + 1
       /\ UNCHANGED <<merged, output, checkpoint>>

----------------------------------------------------------------------------
(* Manager::deploy.  config.output is taken to be a real directory.         *)

\* One destination of the Symlink method.  link_ok is whether
\* util::create_symlink succeeds where nothing is in its way.
SymlinkOne(env, src, dest, link_ok) ==
    LET src_exists == Exists(src, <<>>)
        cleared == IF Exists(Resolve(dest, src), <<>>) /\ ~is_symlink(dest)
                   THEN Real(NoTree) ELSE dest
        dest_exists == Exists(Resolve(cleared, src), <<>>)
        create(d) == IF d = Real(NoTree) /\ link_ok
                     THEN [ok |-> TRUE, dest |-> Link("merged")]
                     ELSE [ok |-> FALSE, dest |-> d]
    IN IF src_exists /\ ~dest_exists THEN create(cleared)
       ELSE IF ~src_exists /\ dest_exists
       THEN [ok |-> TRUE, dest |-> Real(NoTree)]
       ELSE IF src_exists /\ dest_exists /\ ~is_symlink_to(cleared)
       THEN create(Real(NoTree))
       ELSE [ok |-> TRUE, dest |-> cleared]

DeploySymlink(env, source, out, link_ok) ==
    With(SymlinkOne(env, source.content, out.content, link_ok),
         LAMBDA c :
            IF ~c.ok
            THEN [ok |-> FALSE, stage |-> "symlink", err |-> IoErr(env, "denied"),
                  out |-> [out EXCEPT !.content = c.dest]]
            ELSE With(SymlinkOne(env, source.aoc, out.aoc, link_ok),
                      LAMBDA a :
                        [ok |-> a.ok, stage |-> "symlink",
                         err |-> IF a.ok THEN NoErr ELSE IoErr(env, "denied"),
                         out |-> [content |-> c.dest, aoc |-> a.dest]]))

\* The destination of the Copy and HardLink methods made ready: an old link
\* is removed, the directory created if it is missing.
ReadyDest(dest) ==
    IF is_symlink(dest) \/ ~Exists(dest.tree, <<>>) THEN EmptyDir ELSE dest.tree

\* The Copy and HardLink methods: both delete trees, then both copy trees.
DeployFiles(env, method, log, source, out) ==
    LET R(ok, stage, e, c, a) ==
            [ok |-> ok, stage |-> stage, err |-> e,
             out |-> [content |-> Real(c), aoc |-> Real(a)]]
    IN With(FolderDelete(env, ReadyDest(out.content), log.content_deletes, <<>>),
        LAMBDA dc :
          IF ~dc.ok THEN R(FALSE, "delete", dc.err, dc.tree, ReadyDest(out.aoc))
          ELSE With(FolderDelete(env, ReadyDest(out.aoc), log.aoc_deletes, <<>>),
            LAMBDA da :
              IF ~da.ok THEN R(FALSE, "delete", da.err, dc.tree, da.tree)
              ELSE With(FolderCopy(env, method, source.content, dc.tree,
                                   log.content_copies, <<>>),
                LAMBDA cc :
                  IF ~cc.ok THEN R(FALSE, method, cc.err, cc.tree, da.tree)
                  ELSE With(FolderCopy(env, method, source.aoc, da.tree,
                                       log.aoc_copies, <<>>),
                    LAMBDA ca :
                      IF ~ca.ok THEN R(FALSE, method, ca.err, cc.tree, ca.tree)
                      ELSE R(TRUE, method, NoErr, cc.tree, ca.tree)))))

\* Manager::deploy.  method is "copy", "hard_link" or "symlink"; `fail`
\* names the step whose I/O fails: "config" (no deployment config), "link"
\* (create_symlink), "rules" (writing rules.txt), "save" (writing
\* pending.yml), or "none".
DeployResult(env, method, log, source, out, disk, fail) ==
    LET R(ok, stage, e, l, o, d) ==
            [ok |-> ok, stage |-> stage, err |-> e, log |-> l, out |-> o,
             disk |-> d]
    IN IF fail = "config" THEN R(FALSE, "config", NoErr, log, out, disk)
       ELSE With(IF method = "symlink"
                 THEN DeploySymlink(env, source, out, fail # "link")
                 ELSE DeployFiles(env, method, log, source, out),
            LAMBDA run :
              IF ~run.ok THEN R(FALSE, run.stage, run.err, log, run.out, disk)
              ELSE IF fail = "rules"
              THEN R(FALSE, "rules", IoErr(env, "denied"), log, run.out, disk)
              ELSE IF fail = "save"
              THEN R(FALSE, "save", IoErr(env, "denied"), clear(log), run.out,
                     disk)
              ELSE R(TRUE, "done", NoErr, clear(log), run.out,
                     Saved(clear(log))))

deploy(env, method, fail) ==
    \E r \in {DeployResult(env, method, pending_log, merged, output,
                            checkpoint, fail)} :
       /\ output' = r.out
       /\ pending_log' = r.log
       /\ checkpoint' = r.disk
       /\ last' = [op |-> "deploy", ok |-> r.ok, stage |-> r.stage,
                   method |-> method, env |-> env, err |-> r.err,
                   had |-> LogLen(pending_log)]
       /\ calls' = calls + 1
       /\ UNCHANGED merged

----------------------------------------------------------------------------
(* Manager::init: the pending log is loaded from pending.yml.  A checkpoint *)
(* is the file's state: "missing" (read_to_string fails), "malformed"       *)
(* (neither schema parses), "current" (a PendingLog) or "legacy" (an        *)
(* OldPendingLog of two manifests).                                         *)

Missing == [kind |-> "missing"]
Malformed == [kind |-> "malformed"]
Legacy(files, delete) == [kind |-> "legacy", files |-> files, delete |-> delete]

\* convert_set of TryFrom<OldPendingLog>: a path whose first segment has a
\* dot is passed over; any other is folded in as extend_iter folds it.
RECURSIVE ConvertSeq(_, _)
ConvertSeq(map, paths) ==
    IF paths = <<>> THEN [ok |-> TRUE, folder |-> map]
    ELSE LET f == Head(paths) IN
         IF f = <<>> THEN [ok |-> FALSE, folder |-> map]
         ELSE IF HasDot(Head(f)) THEN ConvertSeq(map, Tail(paths))
         ELSE With(extend_iter(map, f),
                   LAMBDA r : IF r.ok THEN ConvertSeq(r.folder, Tail(paths))
                              ELSE r)

convert_set(files) == ConvertSeq(EmptyFolder, Sorted(files))

\* TryFrom<OldPendingLog> for PendingLog.
ConvertLegacy(pending) ==
    With([content_copies |-> convert_set(pending.files.content_files),
          aoc_copies |-> convert_set(pending.files.aoc_files),
          content_deletes |-> convert_set(pending.delete.content_files),
          aoc_deletes |-> convert_set(pending.delete.aoc_files)],
         LAMBDA sets :
            [ok |-> \A k \in DOMAIN sets : sets[k].ok,
             log |-> [content_copies |-> sets.content_copies.folder,
                      aoc_copies |-> sets.aoc_copies.folder,
                      content_deletes |-> sets.content_deletes.folder,
                      aoc_deletes |-> sets.aoc_deletes.folder]])

InitResult(disk) ==
    CASE disk.kind = "missing" -> [ok |-> FALSE, log |-> EmptyLog]
      [] disk.kind = "current" -> [ok |-> TRUE, log |-> disk.log]
      [] disk.kind = "legacy" ->
            With(ConvertLegacy(disk),
                 LAMBDA r : [ok |-> r.ok,
                             log |-> IF r.ok THEN r.log ELSE EmptyLog])
      [] OTHER -> ConvertLegacy(Legacy(EmptyManifest, EmptyManifest))

init ==
    \E r \in {InitResult(checkpoint)} :
       /\ pending_log' = r.log
       /\ last' = [op |-> "init", ok |-> r.ok]
       /\ UNCHANGED <<merged, output, checkpoint, calls>>

\* One call of apply with its arguments drawn from the given sets: the
\* manifest passed, the union of the manifests of the mods opened for it,
\* the order in which the orphans are taken, the size updates unpacking
\* returns and the step that fails.
ApplyWith(manifests, totals, all_updates, fails) ==
    /\ calls < MaxCalls
    /\ \E m \in manifests, total \in totals, updates \in all_updates,
          fail \in fails :
          \E order_c \in Perms(m.m.content_files \ total.content_files),
             order_a \in Perms(m.m.aoc_files \ total.aoc_files) :
             apply(m, total, order_c, order_a, updates, File(2, 2), fail)

NoUpdates == [c \in {} |-> None]

----------------------------------------------------------------------------
(* The orphan law: apply with many manifests.                               *)

ApplyManifests ==
    {SomeManifest(ManifestUnion(S)) :
        S \in {{ModA}, {ModB}, {ModC}, {ModA, ModB}, {ModA, ModB, ModC}}}
ApplyTotals ==
    {ManifestUnion(S) : S \in {{}, {ModA}, {ModB}, {ModC}, {ModA, ModB}}}

ApplySome == ApplyWith(ApplyManifests, ApplyTotals, {NoUpdates}, {"none", "unpack"})
ApplyAll == ApplyWith({NoManifest}, {ModA, ModB}, {NoUpdates}, {"none"})

NextApply == ApplySome \/ ApplyAll

SpecApply == Init /\ [][NextApply]_vars

\* handle_orphans of this step returned Ok.
OrphansHandled(l) ==
    /\ l.op = "apply" /\ l.manifest.some
    /\ l.stage \notin {"open", "handle_orphans"}

M1(l) == l.manifest.m
M2(l) == l.total
OrphansOf(l) ==
    Manifest(M1(l).content_files \ M2(l).content_files,
             M1(l).aoc_files \ M2(l).aoc_files)
KeptOf(l) ==
    Manifest(M1(l).content_files \cap M2(l).content_files,
             M1(l).aoc_files \cap M2(l).aoc_files)

\* What handle_orphans did to one tree: the delete tree gained exactly the
\* orphans, the orphans are gone from the merged tree and no other file is,
\* and until unpacking starts the other files are as they were.
OrphanLawTree(deletes, deletes2, tree, tree2, orphans, stage) ==
    /\ FilePaths(deletes2) = FilePaths(deletes) \cup orphans
    /\ \A p \in orphans : ~Exists(tree2, p)
    /\ \A p \in (DOMAIN tree.files) \ orphans : IsFile(tree2, p)
    /\ stage \in {"extend_copies", "unpack"} =>
          \A p \in (DOMAIN tree.files) \ orphans : tree2.files[p] = tree.files[p]

\* C1: in apply(Some(manifest)), when handle_orphans returns Ok, the paths
\* of M1 \ M2 and no others are added to the delete trees and removed from
\* the merged trees, tree by tree; the paths of M1 \cap M2 stay on disk and
\* out of the delete trees, and the manifest left for unpacking is
\* M1 \cap M2.
C1_OrphanLawDeletes ==
    [][OrphansHandled(last') =>
        /\ OrphanLawTree(pending_log.content_deletes, pending_log'.content_deletes,
                         merged.content, merged'.content,
                         OrphansOf(last').content_files, last'.stage)
        /\ OrphanLawTree(pending_log.aoc_deletes, pending_log'.aoc_deletes,
                         merged.aoc, merged'.aoc,
                         OrphansOf(last').aoc_files, last'.stage)
        /\ last'.left = KeptOf(last')]_vars

\* C1 witness: a call that had orphans in both trees, kept a path, and had a
\* file of the kept set on disk.
C1_Witness ==
    /\ OrphansHandled(last) /\ last.stage = "unpack"
    /\ OrphansOf(last).content_files # {} /\ OrphansOf(last).aoc_files # {}
    /\ KeptOf(last).content_files # {}
    /\ \E p \in KeptOf(last).content_files : IsFile(merged.content, p)
    /\ has_some(pending_log.content_deletes) /\ has_some(pending_log.aoc_deletes)

\* The paths of M2 \ M1 and the paths this step added to a tree.
NewOnly(l) ==
    Manifest(M2(l).content_files \ M1(l).content_files,
             M2(l).aoc_files \ M1(l).aoc_files)
Added(folder, folder2) == FilePaths(folder2) \ FilePaths(folder)

AppliedSome(l) == l.op = "apply" /\ l.manifest.some /\ l.ok

\* C2 as claimed: after a successful apply(Some(manifest)) every path of
\* M2 \ M1 is in the copy trees, and none was added to the delete trees.
C2_Original ==
    [][AppliedSome(last') =>
        /\ NewOnly(last').content_files \subseteq FilePaths(pending_log'.content_copies)
        /\ NewOnly(last').aoc_files \subseteq FilePaths(pending_log'.aoc_copies)
        /\ NewOnly(last').content_files
              \cap Added(pending_log.content_deletes, pending_log'.content_deletes) = {}
        /\ NewOnly(last').aoc_files
              \cap Added(pending_log.aoc_deletes, pending_log'.aoc_deletes) = {}]_vars

\* C2 amended: after a successful apply(Some(manifest)) every path of
\* M1 \cap M2 is in the copy trees, and no path of M2 \ M1 was added to the
\* delete trees by the call.
C2_Amended ==
    [][AppliedSome(last') =>
        /\ KeptOf(last').content_files \subseteq FilePaths(pending_log'.content_copies)
        /\ KeptOf(last').aoc_files \subseteq FilePaths(pending_log'.aoc_copies)
        /\ NewOnly(last').content_files
              \cap Added(pending_log.content_deletes, pending_log'.content_deletes) = {}
        /\ NewOnly(last').aoc_files
              \cap Added(pending_log.aoc_deletes, pending_log'.aoc_deletes) = {}]_vars

\* C2 witness: a successful call with paths in M1 \cap M2 and in M2 \ M1, the
\* latter in neither copy tree.
C2_Witness ==
    /\ AppliedSome(last)
    /\ KeptOf(last).content_files # {} /\ KeptOf(last).aoc_files # {}
    /\ NewOnly(last).content_files # {}
    /\ NewOnly(last).content_files \cap FilePaths(pending_log.content_copies) = {}

----------------------------------------------------------------------------
(* The size table: apply with many updates.                                 *)

UpdateValues == {None, SomeSize(1), SomeSize(3)}
AllUpdates == UNION {[cs -> UpdateValues] : cs \in SUBSET Canons}

ApplyUpdates ==
    ApplyWith({SomeManifest(ModA)}, {ModA}, AllUpdates, {"none", "rstb"})
ApplyAllUpdates == ApplyWith({NoManifest}, {ModA}, AllUpdates, {"none"})

NextRstb == ApplyUpdates \/ ApplyAllUpdates

SpecRstb == Init /\ [][NextRstb]_vars

\* apply_rstb of this step wrote the table.
RstbWritten(l) == l.op = "apply" /\ l.stage \in {"save", "done"}

Max(a, b) == IF a < b THEN b ELSE a

\* C3: after apply_rstb(updates), for every path of the updates: a size n
\* leaves max(s, n) recorded where s was recorded before (n where nothing
\* was), a removal leaves the path absent.  Between two calls of apply that
\* do not clear the merged folder the table a call starts from is the one
\* the call before left, so that a recorded size goes down only by removal.
C3_RstbMonotonic ==
    [][RstbWritten(last') =>
        LET before == last'.table
            after == ReadTable(merged'.content)
            updates == last'.updates
        IN /\ IsFile(merged'.content, RSTB_PATH)
           /\ \A c \in DOMAIN updates :
                IF updates[c].some
                THEN /\ c \in DOMAIN after
                     /\ after[c] = IF c \in DOMAIN before
                                   THEN Max(before[c], updates[c].size)
                                   ELSE updates[c].size
                ELSE c \notin DOMAIN after
           /\ \A c \in (DOMAIN before) \ (DOMAIN updates) :
                c \in DOMAIN after /\ after[c] = before[c]
           /\ last'.manifest.some =>
                /\ before = ReadTable(merged.content)
                /\ \A c \in (DOMAIN before) \cap (DOMAIN after) :
                      after[c] >= before[c]]_vars

\* C3 witness: a second call found a larger size recorded than the one it
\* was given and kept it, raised another, and removed nothing.
C3_Witness ==
    /\ RstbWritten(last) /\ last.manifest.some
    /\ \E c \in DOMAIN last.updates :
          /\ last.updates[c].some /\ c \in DOMAIN last.table
          /\ last.table[c] > last.updates[c].size
          /\ ReadTable(merged.content)[c] = last.table[c]
          /\ last.table[c] = 3
    /\ \E c \in DOMAIN last.updates :
          /\ last.updates[c].some /\ c \notin DOMAIN last.table

----------------------------------------------------------------------------
(* The life of a manager: it is made by init from the checkpoint an earlier *)
(* session left, then apply, reset_pending and deploy are called.           *)

\* A deployed content tree an earlier session left: x.bin older than the
\* staging copy, y.bin that staging does not have.
OldContent ==
    WriteFile(WriteFile(InitMerged.content, <<"x.bin">>, File(1, 0)),
              <<"y.bin">>, File(1, 1))

OutFresh == [content |-> Real(EmptyDir), aoc |-> Real(EmptyDir)]
OutOld == [content |-> Real(OldContent), aoc |-> Real(NoTree)]
OutLinked == [content |-> Link("merged"), aoc |-> Link("other")]

\* The links an earlier Symlink deployment made to both staging subtrees;
\* the aoc link leads nowhere once staging has no aoc directory.
OutSymlinked == [content |-> Link("merged"), aoc |-> Link("merged")]

\* A staging tree without an aoc directory.
MergedNoAoc == [content |-> InitMerged.content, aoc |-> NoTree]

\* A pending log an earlier session saved.
SavedLog ==
    extend_copies(
        extend_deletes(EmptyLog, Manifest({<<"y.bin">>}, {<<"A", "x.bin">>})).log,
        ManifestUnion({ModA, ModB})).log

Checkpoints ==
    {Missing, Malformed, Saved(EmptyLog), Saved(SavedLog),
     Legacy(ModB, Manifest({<<"A", "y.bin">>}, {})),
     Legacy(ModA, EmptyManifest),
     Legacy(ModC, EmptyManifest)}

Boot ==
    /\ merged \in {InitMerged, MergedNoAoc}
    /\ output \in {OutFresh, OutOld, OutLinked, OutSymlinked}
    /\ pending_log = EmptyLog
    /\ checkpoint \in Checkpoints
    /\ last = [op |-> "boot"]
    /\ calls = 0

\* A manager exists: init has returned Ok.
Alive == last.op # "boot" /\ ~(last.op = "init" /\ ~last.ok)

Unix == [platform |-> "unix", same_volume |-> TRUE, now |-> 2]
UnixOtherVolume == [platform |-> "unix", same_volume |-> FALSE, now |-> 2]
WindowsOtherVolume == [platform |-> "windows", same_volume |-> FALSE, now |-> 2]

InitManager == last.op = "boot" /\ init

Apply ==
    /\ Alive
    /\ ApplyWith({SomeManifest(ModA), SomeManifest(ManifestUnion({ModA, ModB}))},
                 {ModA, ModB}, {NoUpdates}, {"none", "save"})

ResetPending ==
    /\ Alive
    /\ calls < MaxCalls
    /\ \E dir_time \in Times, fail \in {"none", "config"} :
          reset_pending(dir_time, fail)

Deploy ==
    /\ Alive
    /\ calls < MaxCalls
    /\ \/ \E fail \in {"none", "config", "rules", "save"} :
             deploy(Unix, "copy", fail)
       \/ \E env \in {Unix, UnixOtherVolume, WindowsOtherVolume},
             fail \in {"none", "save"} :
             deploy(env, "hard_link", fail)
       \/ \E fail \in {"none", "link", "save"} :
             deploy(Unix, "symlink", fail)

Next == InitManager \/ Apply \/ ResetPending \/ Deploy

Spec == Boot /\ [][Next]_vars

----------------------------------------------------------------------------
(* reset_pending.                                                           *)

\* The directories of a Folder, as paths.
RECURSIVE FolderDirs(_)
FolderDirs(folder) ==
    UNION {{<<d>>} \cup {<<d>> \o p : p \in FolderDirs(folder.folders[d])}
           : d \in DOMAIN folder.folders}

\* The directories above the given file paths.
DirsAbove(paths) == UNION {Prefixes(Parent(p)) : p \in paths} \ {<<>>}

\* The staging files missing from the deployed tree or of another
\* modification time there.
MissingOrChanged(staging, deployed, dir_time) ==
    {p \in DOMAIN staging.files :
        \/ ~Exists(deployed, p)
        \/ staging.files[p].mtime # Modified(deployed, p, dir_time)}

\* The deployed files with no counterpart in staging.
DeployedOnly(staging, deployed) ==
    {p \in DOMAIN deployed.files : ~Exists(staging, p)}

IsComparison(copies, deletes, staging, deployed, dir_time) ==
    /\ FilePaths(copies) = MissingOrChanged(staging, deployed, dir_time)
    /\ FilePaths(deletes) = DeployedOnly(staging, deployed)
    /\ FolderDirs(copies) = DirsAbove(FilePaths(copies))
    /\ FolderDirs(deletes) = DirsAbove(FilePaths(deletes))

\* C4: after reset_pending returns Ok the pending log is exactly the
\* comparison of the staging tree with the deployed tree: the files of a
\* copy tree are the staging files missing from the deployed tree or of a
\* different modification time there, the files of a delete tree are the
\* deployed files with no counterpart in staging, and the directories of a
\* tree are those above its files; nothing else is in the log.
C4_ResetIsComparison ==
    (last.op = "reset_pending" /\ last.ok) =>
        LET deployed == Resolved(output, merged) IN
        /\ IsComparison(pending_log.content_copies, pending_log.content_deletes,
                        merged.content, deployed.content, last.dir_time)
        /\ IsComparison(pending_log.aoc_copies, pending_log.aoc_deletes,
                        merged.aoc, deployed.aoc, last.dir_time)

\* C4 witness: staging x.bin is newer than its deployed copy, y.bin is
\* deployed only, the log held other entries before the call; the content
\* copies are {x.bin} and the content deletes {y.bin}.
C4_Witness ==
    /\ last.op = "reset_pending" /\ last.ok /\ last.had > 2
    /\ output.content.link = "none"
    /\ IsFile(output.content.tree, <<"x.bin">>)
    /\ merged.content.files[<<"x.bin">>].mtime
          > output.content.tree.files[<<"x.bin">>].mtime
    /\ ~Exists(merged.content, <<"y.bin">>)
    /\ FilePaths(pending_log.content_copies) = {<<"x.bin">>}
    /\ FilePaths(pending_log.content_deletes) = {<<"y.bin">>}
    /\ LogLen(pending_log) = 2

----------------------------------------------------------------------------
(* deploy.                                                                  *)

\* C5: whenever deploy returns Ok, with any method, pending() is false and
\* pending_len() is 0 afterwards, and pending.yml holds that empty log.
C5_DeployedIsClean ==
    (last.op = "deploy" /\ last.ok) =>
        /\ ~LogHasSome(pending_log)
        /\ LogLen(pending_log) = 0
        /\ checkpoint = Saved(pending_log)
        /\ pending_log = EmptyLog

\* C5 witness: a deployment by hard links of a log with copies and deletes
\* returned Ok over a checkpoint that held the log.
C5_Witness ==
    /\ last.op = "deploy" /\ last.ok /\ last.method = "hard_link"
    /\ last.had > 2
    /\ checkpoint = Saved(EmptyLog)
    /\ IsFile(output.content.tree, <<"A", "B", "x.bin">>)

\* C6 as stated: a call of deploy that returns an error leaves the pending
\* log in memory and the checkpoint on disk as they were before the call.
C6_FailedDeployKeepsLog ==
    [][(last'.op = "deploy" /\ ~last'.ok) =>
          pending_log' = pending_log /\ checkpoint' = checkpoint]_vars

\* C8 as stated: a failure of the hard link phase is reported as the
\* cross-volume error exactly when source and destination are on
\* different volumes.
C8_CrossVolumeDistinguished ==
    (last.op = "deploy" /\ ~last.ok /\ last.stage = "hard_link") =>
        (last.err.cross <=> last.err.cause = "cross_volume")

----------------------------------------------------------------------------
(* init.                                                                    *)

\* The checkpoint loads under neither schema.
Unloadable(disk) ==
    \/ disk.kind \in {"missing", "malformed"}
    \/ disk.kind = "legacy" /\ ~ConvertLegacy(disk).ok

\* C9 as stated: init over a checkpoint that loads under neither schema
\* returns Ok with an empty pending log.
C9_InitNeverFails ==
    (last.op = "init" /\ Unloadable(checkpoint)) =>
        last.ok /\ ~LogHasSome(pending_log)

----------------------------------------------------------------------------
(* The execution of a pending log, one file system operation at a time.     *)
(* deploy calls delete on the two delete trees, then copy or hard_link on   *)
(* the two copy trees.  A Folder takes its files in parallel and, when all  *)
(* of them are done, its folders in parallel; an interruption leaves any    *)
(* set of operations done that is closed under this order.                  *)

FileKinds == {"rm", "copy", "settime", "unlink", "link"}
DirKinds == {"rmdir", "mkdir"}

Op(phase, kind, path) == [phase |-> phase, kind |-> kind, path |-> path]

DeleteOps(phase, folder) ==
    {Op(phase, "rm", p) : p \in FilePaths(folder)}
    \cup {Op(phase, "rmdir", d) : d \in FolderDirs(folder)}

CopyOps(phase, method, folder) ==
    {Op(phase, k, p) : p \in FilePaths(folder),
                       k \in IF method = "copy" THEN {"copy", "settime"}
                             ELSE {"unlink", "link"}}
    \cup {Op(phase, "mkdir", d) : d \in FolderDirs(folder)}

ExecOps(method, log) ==
    DeleteOps("1 content_deletes", log.content_deletes)
    \cup DeleteOps("2 aoc_deletes", log.aoc_deletes)
    \cup CopyOps("3 content_copies", method, log.content_copies)
    \cup CopyOps("4 aoc_copies", method, log.aoc_copies)

PhaseOrder == <<"1 content_deletes", "2 aoc_deletes", "3 content_copies",
                "4 aoc_copies">>
PhaseRank(ph) == CHOOSE i \in 1..Len(PhaseOrder) : PhaseOrder[i] = ph

\* Before without the order of the four calls: the trees are worked on
\* side by side.
BeforeWithinTree(a, b) ==
    /\ a.phase = b.phase
    /\ \/ /\ a.kind \in FileKinds
          /\ IsPrefix(Parent(a.path), Parent(b.path))
          /\ b.kind \in DirKinds \/ Parent(a.path) # Parent(b.path)
       \/ /\ a.path = b.path
          /\ a.kind \in {"copy", "unlink"} /\ b.kind \in {"settime", "link"}
       \/ a.kind = "mkdir" /\ IsPrefix(a.path, b.path) /\ a.path # b.path
       \/ b.kind = "rmdir" /\ IsPrefix(b.path, a.path) /\ a.path # b.path

\* Operation a is done before operation b starts.
Before(a, b) ==
    \/ PhaseRank(a.phase) < PhaseRank(b.phase)
    \/ /\ a.phase = b.phase
       /\ \/ /\ a.kind \in FileKinds
             /\ IsPrefix(Parent(a.path), Parent(b.path))
             /\ b.kind \in DirKinds \/ Parent(a.path) # Parent(b.path)
          \/ /\ a.path = b.path
             /\ a.kind \in {"copy", "unlink"} /\ b.kind \in {"settime", "link"}
          \/ a.kind = "mkdir" /\ IsPrefix(a.path, b.path) /\ a.path # b.path
          \/ b.kind = "rmdir" /\ IsPrefix(b.path, a.path) /\ a.path # b.path

\* One operation against the deployed tree `to`.
DoOp(env, o, from, to) ==
    LET p == o.path IN
    CASE o.kind = "rm" -> DeleteFile(env, to, p)
      [] o.kind = "rmdir" ->
            IF ~Exists(to, p) THEN Ok(to)
            ELSE IF IsFile(to, p) THEN Fail(to, IoErr(env, "not_dir"))
            ELSE IF ReadDir(to, p) = {} THEN Ok(RemoveDir(to, p))
            ELSE Ok(to)
      [] o.kind = "mkdir" ->
            IF Exists(to, p) THEN Ok(to)
            ELSE IF ~IsDir(to, Parent(p)) THEN Fail(to, IoErr(env, "not_dir"))
            ELSE Ok(CreateDir(to, p))
      [] o.kind = "copy" ->
            IF Exists(from, p) THEN fs_copy(env, from, to, p)
            ELSE DeleteFile(env, to, p)
      [] o.kind = "settime" ->
            IF Exists(from, p) THEN set_modified(env, from, to, p) ELSE Ok(to)
      [] o.kind = "unlink" -> DeleteFile(env, to, p)
      [] OTHER -> LinkFile(env, from, to, p)

OnContent(o) == o.phase \in {"1 content_deletes", "3 content_copies"}

\* An operation whose predecessors are done is carried out; one that fails
\* ends the run.
ExecStep ==
    /\ last.op = "exec" /\ ~last.err
    /\ \E o \in ExecOps(last.method, pending_log) \ last.done :
          /\ \A a \in ExecOps(last.method, pending_log) :
                Before(a, o) => a \in last.done
          /\ \E r \in {IF OnContent(o)
                       THEN DoOp(last.env, o, merged.content, output.content.tree)
                       ELSE DoOp(last.env, o, merged.aoc, output.aoc.tree)} :
                /\ output' = IF OnContent(o)
                             THEN [output EXCEPT !.content = Real(r.tree)]
                             ELSE [output EXCEPT !.aoc = Real(r.tree)]
                /\ last' = [last EXCEPT !.err = ~r.ok,
                               !.done = IF r.ok THEN @ \cup {o} ELSE @]
    /\ UNCHANGED <<merged, pending_log, checkpoint, calls>>

\* The run ends where it is, by its error, by an interruption or because
\* it is complete, and the log is executed again from the start.
ExecAgain ==
    /\ last.op = "exec"
    /\ calls < MaxCalls
    /\ calls' = calls + 1
    /\ last' = [last EXCEPT
          !.done = {}, !.err = FALSE,
          !.interrupted = @ \/ (last.done # {} /\
                                last.done # ExecOps(last.method, pending_log)),
          !.completed = @ \/ (~last.err /\
                              last.done = ExecOps(last.method, pending_log))]
    /\ UNCHANGED <<merged, output, pending_log, checkpoint>>

\* Staging and deployed trees with files side by side and folders side by
\* side.
StagingWide ==
    [content |-> WriteAll(NoTree, {<<"x.bin">>, <<"A", "x.bin">>,
                                   <<"A", "y.bin">>, <<"B", "x.bin">>},
                          File(2, 2)),
     aoc |-> EmptyDir]

OutDeep ==
    [content |-> Real(WriteAll(NoTree, {<<"A", "y.bin">>, <<"B", "y.bin">>,
                                        <<"x.bin">>}, File(1, 1))),
     aoc |-> Real(WriteAll(NoTree, {<<"A", "x.bin">>}, File(1, 1)))]

ExecStagings == {InitMerged, StagingWide}
ExecOutputs == {OutFresh, [OutOld EXCEPT !.aoc = Real(EmptyDir)], OutDeep}

\* The logs executed: the comparison of the two trees, a log of an earlier
\* session that lists files the trees may not hold, and that log with
\* files to delete that it also lists to copy.
ExecLogs(staging, out) ==
    {CompileLog(staging, Resolved(out, staging), 1), SavedLog,
     extend_deletes(SavedLog, ModB).log}

ExecInit ==
    /\ merged \in ExecStagings
    /\ output \in ExecOutputs
    /\ pending_log \in ExecLogs(merged, output)
    /\ checkpoint = Saved(pending_log)
    /\ \E method \in {"copy", "hard_link"}, env \in {Unix, UnixOtherVolume} :
          last = [op |-> "exec", method |-> method, env |-> env,
                  start |-> output, done |-> {}, err |-> FALSE,
                  interrupted |-> FALSE, completed |-> FALSE]
    /\ calls = 0

NextExec == ExecStep \/ ExecAgain

SpecExec == ExecInit /\ [][NextExec]_vars

\* The deployed trees an uninterrupted run leaves, from the trees the first
\* run started with.
Once == DeployFiles(last.env, last.method, pending_log, merged, last.start)

ExecComplete ==
    last.op = "exec" /\ ~last.err
    /\ last.done = ExecOps(last.method, pending_log)

\* C7: where one uninterrupted run of a pending log succeeds, every run of
\* the log that completes, be it the first, a second one after a complete
\* run, or one after runs interrupted behind any of their file operations,
\* leaves the deployed tree that the uninterrupted run leaves, and none of
\* these runs fails.
C7_ExecIdempotent ==
    (last.op = "exec" /\ Once.ok) =>
        /\ ~last.err
        /\ ExecComplete => output = Once.out

\* C7 witness: after an interrupted run and a complete run, a further run
\* of a log with deletes and copies is complete; the deployed tree is not
\* the one the first run started with.
C7_Witness ==
    /\ ExecComplete /\ Once.ok
    /\ last.interrupted /\ last.completed
    /\ output # last.start
    /\ has_some(pending_log.content_deletes)
    /\ has_some(pending_log.content_copies)

----------------------------------------------------------------------------
(* ShopData (uk-content/src/actor/shop.rs).  A ShopData is a function from  *)
(* table names to optional tables, a table a function from item names to    *)
(* items; IndexMap equality does not look at the order of the entries.      *)

TableNames == {"Normal", "Rare"}
ItemNames == {"Arrow", "Apple"}
ItemNums == {1, 2}

\* A ShopItem as the parser makes it; num stands for the numeric fields.
ShopItem(n) == [num |-> n, delete |-> FALSE]
with_delete(item) == [item EXCEPT !.delete = TRUE]

NoTable == [some |-> FALSE]
SomeTable(t) == [some |-> TRUE, table |-> t]

ShopTables ==
    UNION {[names -> {ShopItem(n) : n \in ItemNums}] : names \in SUBSET ItemNames}
ShopDatas ==
    UNION {[names -> {NoTable} \cup {SomeTable(t) : t \in ShopTables}]
           : names \in SUBSET TableNames}

\* merge_table without its filter: the items marked delete stay.
merge_table_unfiltered(base, d) ==
    [i \in (DOMAIN base) \cup (DOMAIN d) |->
        IF i \in DOMAIN d THEN d[i] ELSE base[i]]

\* merge_table: the entries of base, then those of diff over them; the
\* items marked delete are dropped.
merge_table(base, d) ==
    LET all == [i \in (DOMAIN base) \cup (DOMAIN d) |->
                    IF i \in DOMAIN d THEN d[i] ELSE base[i]]
    IN [i \in {i \in DOMAIN all : ~all[i].delete} |-> all[i]]

\* The table of a diff for a table that is Some on both sides and differs.
DiffTable(self_table, other_table) ==
    LET changed == {i \in DOMAIN other_table :
                       ~(i \in DOMAIN self_table /\ self_table[i] = other_table[i])}
        removed == (DOMAIN self_table) \ (DOMAIN other_table)
    IN [i \in changed \cup removed |->
           IF i \in changed THEN other_table[i] ELSE with_delete(self_table[i])]

\* ShopData::diff.
diff(self, other) ==
    LET BothSome(n) == n \in DOMAIN self /\ self[n].some /\ other[n].some
        kept == {n \in DOMAIN other :
                    ~(BothSome(n) /\ self[n].table = other[n].table)}
    IN [n \in kept |->
           IF BothSome(n)
           THEN SomeTable(DiffTable(self[n].table, other[n].table))
           ELSE other[n]]

\* ShopData::merge.
merge(base, d) ==
    LET DiffSome(n) == n \in DOMAIN d /\ d[n].some
        from_base == {n \in DOMAIN base : base[n].some => DiffSome(n)}
        from_diff == (DOMAIN d) \ (DOMAIN base)
    IN [n \in from_base \cup from_diff |->
           IF n \in from_diff THEN d[n]
           ELSE IF base[n].some
           THEN SomeTable(merge_table(base[n].table, d[n].table))
           ELSE IF DiffSome(n) THEN d[n] ELSE NoTable]

NoShop == [n \in {} |-> NoTable]

ShopInit ==
    /\ merged = InitMerged
    /\ output = OutFresh
    /\ pending_log = EmptyLog
    /\ checkpoint = Saved(EmptyLog)
    /\ calls = 0
    /\ \E base \in ShopDatas, mod \in ShopDatas :
          last = [op |-> "shop", step |-> "given", base |-> base, mod |-> mod,
                  diff |-> NoShop, merged |-> NoShop]

Diff ==
    /\ last.op = "shop" /\ last.step = "given"
    /\ last' = [last EXCEPT !.step = "diffed", !.diff = diff(last.base, last.mod)]
    /\ UNCHANGED <<merged, output, pending_log, checkpoint, calls>>

Merge ==
    /\ last.op = "shop" /\ last.step = "diffed"
    /\ last' = [last EXCEPT !.step = "merged",
                            !.merged = merge(last.base, last.diff)]
    /\ UNCHANGED <<merged, output, pending_log, checkpoint, calls>>

NextShop == Diff \/ Merge

SpecShop == ShopInit /\ [][NextShop]_vars

\* C10 as stated: for all ShopData values base and mod,
\* merge(base, base.diff(mod)) equals mod.
C10_ShopRoundTrip ==
    (last.op = "shop" /\ last.step = "merged") => last.merged = last.mod

\* A ShopData as TryFrom<&ParameterIO> makes it and as merging such records
\* keeps it: every table is Some and no item carries the delete flag.
Decoded(shop) ==
    \A n \in DOMAIN shop :
        shop[n].some /\ \A i \in DOMAIN shop[n].table : ~shop[n].table[i].delete

\* The items of table n of a ShopData (none if the table is absent or None).
ItemsOf(shop, n) ==
    IF n \in DOMAIN shop /\ shop[n].some THEN DOMAIN shop[n].table ELSE {}

----------------------------------------------------------------------------
(* The patch algebra of uk-content: diff and merge of the records of       *)
(* eco/status.rs, map/static_.rs and map/mainfield.  A call that panics    *)
(* returns Panic, one that returns returns Value(v).                        *)

Panic == [panic |-> TRUE]
Value(v) == [panic |-> FALSE, v |-> v]

\* util::DeleteVec, with its order left out: the items, each with its
\* delete flag.  diff lists the items only other has and, flagged, the
\* items only self has; merge adds the items of the diff and drops the
\* flagged ones.
PlainVec(items) == [i \in items |-> FALSE]

VecDiff(self, other) ==
    [i \in ((DOMAIN other) \ (DOMAIN self)) \cup ((DOMAIN self) \ (DOMAIN other))
        |-> i \notin DOMAIN other]

VecMerge(self, d) ==
    PlainVec({i \in (DOMAIN self) \cup (DOMAIN d) :
                 IF i \in DOMAIN d THEN ~d[i] ELSE ~self[i]})

\* util::DeleteMap: the entries, each [val, delete].
Entry(v) == [val |-> v, delete |-> FALSE]
Tombstone(e) == [e EXCEPT !.delete = TRUE]
PlainMap(f) == [k \in DOMAIN f |-> Entry(f[k])]

\* DeleteMap::deep_diff: an entry of other that self lacks as it is, an
\* entry both have with different values as D of the two values, an entry
\* only self has as a tombstone.
DeepDiff(self, other, D(_, _)) ==
    [k \in {k \in DOMAIN other : k \notin DOMAIN self \/ self[k] # other[k]}
           \cup ((DOMAIN self) \ (DOMAIN other)) |->
        IF k \notin DOMAIN other THEN Tombstone(self[k])
        ELSE IF k \notin DOMAIN self THEN other[k]
        ELSE Entry(D(self[k].val, other[k].val))]

\* DeleteMap::deep_merge: an entry both have is M of the two values, the
\* others are taken over; the tombstones are dropped.
DeepMerge(self, d, M(_, _)) ==
    [k \in {k \in (DOMAIN self) \cup (DOMAIN d) :
               IF k \in DOMAIN d THEN ~d[k].delete ELSE ~self[k].delete} |->
        IF k \notin DOMAIN d THEN self[k]
        ELSE IF k \notin DOMAIN self THEN d[k]
        ELSE Entry(M(self[k].val, d[k].val))]

\* StatusEffectValues.
Special == [special |-> TRUE]
Normal(values) == [special |-> FALSE, values |-> values]

\* StatusEffectValues::diff and merge: both panic on a Special with a Normal.
StatusValuesDiff(self, other) ==
    IF self.special # other.special THEN Panic
    ELSE IF self.special THEN Value(Special)
    ELSE Value(Normal(VecDiff(self.values, other.values)))

StatusValuesMerge(self, d) ==
    IF self.special # d.special THEN Panic
    ELSE IF self.special THEN Value(Special)
    ELSE Value(Normal(VecMerge(self.values, d.values)))

\* StatusEffectList::diff: the effects of self; other.0[effect] panics on
\* an effect other lacks.
StatusDiff(self, other) ==
    IF \E e \in DOMAIN self :
          e \notin DOMAIN other
          \/ (self[e] # other[e] /\ StatusValuesDiff(self[e], other[e]) = Panic)
    THEN Panic
    ELSE Value([e \in {e \in DOMAIN self : self[e] # other[e]} |->
                   StatusValuesDiff(self[e], other[e]).v])

\* StatusEffectList::merge: the effects of self, each merged with the
\* entry the diff has for it.
StatusMerge(self, d) ==
    IF \E e \in (DOMAIN self) \cap (DOMAIN d) :
          StatusValuesMerge(self[e], d[e]) = Panic
    THEN Panic
    ELSE Value([e \in DOMAIN self |->
                   IF e \in DOMAIN d THEN StatusValuesMerge(self[e], d[e]).v
                   ELSE self[e]])

Effects == {"Burn", "Ice"}
EffectValues == {Special, Normal(PlainVec({})), Normal(PlainVec({1})),
                 Normal(PlainVec({1, 2}))}
StatusLists == UNION {[es -> EffectValues] : es \in SUBSET Effects}

\* DeleteMap::diff and merge of a DeleteMap: an entry both have with
\* different values is replaced by other's.
Replace(self_val, other_val) == other_val
MapDiff(self, other) == DeepDiff(self, other, Replace)
MapMerge(self, d) == DeepMerge(self, d, Replace)

\* CDungeon Static: general (BTreeMap<String, DeleteVec<Byml>>) and
\* start_pos (DeleteMap<String, DeleteMap<String, EntryPos>>).
\* Static::diff: the general keys of other; start_pos by deep_diff.
StaticDiff(self, other) ==
    [general |->
        [k \in {k \in DOMAIN other.general :
                   k \notin DOMAIN self.general
                   \/ self.general[k] # other.general[k]} |->
            IF k \in DOMAIN self.general
            THEN VecDiff(self.general[k], other.general[k])
            ELSE other.general[k]],
     start_pos |-> DeepDiff(self.start_pos, other.start_pos, MapDiff)]

\* Static::merge: the general keys of self; start_pos by deep_merge.
StaticMerge(self, d) ==
    [general |->
        [k \in DOMAIN self.general |->
            IF k \in DOMAIN d.general
            THEN VecMerge(self.general[k], d.general[k])
            ELSE self.general[k]],
     start_pos |-> DeepMerge(self.start_pos, d.start_pos, MapMerge)]

GeneralKeys == {"DgnObj", "Elevator"}
Vecs == {PlainVec({}), PlainVec({1}), PlainVec({1, 2})}
EntryMaps == {PlainMap([k \in names |-> n]) : names \in SUBSET {"Entrance"}, n \in {1, 2}}
StartPosMaps == {PlainMap([k \in names |-> m]) : names \in SUBSET {"Dungeon000"}, m \in EntryMaps}
Statics ==
    {[general |-> g, start_pos |-> sp] :
        g \in UNION {[ks -> Vecs] : ks \in SUBSET GeneralKeys},
        sp \in StartPosMaps}

\* Option<T>.
Some(v) == [some |-> TRUE, v |-> v]

\* The scalar fields of the mainfield records.  diff: other's value if it
\* differs from self's, else the default (None) after unwrap_or_default
\* and a panic after expect or unwrap.
FieldDiff(self, other) == IF other # self THEN other ELSE None
FieldDiffPanics(self, other) == other = self

\* merge as `diff.eq(self).then_some(self).or(Some(diff)).expect(..)`:
\* self's value if the diff's equals it, the diff's value otherwise.
FieldMergeEq(self, d) == IF d = self THEN self ELSE d

\* merge as `diff.or(self)`.
FieldMergeOr(self, d) == IF d.some THEN d ELSE self

\* ScaleTranslate (mainfield/mod.rs).
ScaleTranslateDiff(self, other) ==
    [scale |-> VecDiff(self.scale, other.scale),
     translate |-> VecDiff(self.translate, other.translate)]

ScaleTranslateMerge(self, d) ==
    [scale |-> VecMerge(self.scale, d.scale),
     translate |-> VecMerge(self.scale, d.translate)]

\* RestartPos (mainfield/restart_pos.rs); scale is as translate.
RestartPosDiff(self, other) ==
    IF FieldDiffPanics(self.unique_name, other.unique_name) THEN Panic
    ELSE Value([translate |-> VecDiff(self.translate, other.translate),
                unique_name |-> FieldDiff(self.unique_name, other.unique_name)])

RestartPosMerge(self, d) ==
    [translate |-> VecMerge(self.translate, d.translate),
     unique_name |-> FieldMergeEq(self.unique_name, d.unique_name)]

\* The entries both maps have with different values.
Changed(self, other) ==
    {k \in (DOMAIN self) \cap (DOMAIN other) : self[k] # other[k]}

\* Option<DeleteMap<String, RestartPos>>::deep_diff and deep_merge.
RestartMapDiff(self, other) ==
    IF \E k \in Changed(self, other) :
          RestartPosDiff(self[k].val, other[k].val) = Panic
    THEN Panic
    ELSE Value(DeepDiff(self, other,
                        LAMBDA x, y : IF RestartPosDiff(x, y) = Panic THEN x
                                      ELSE RestartPosDiff(x, y).v))

\* MainStatic, with dlc_restart_pos and tera_water_disable; the other
\* fields are DeleteMaps handled as tera_water_disable is.
\* MainStatic::diff.
MainStaticDiff(self, other) ==
    LET a == self.dlc_restart_pos
        b == other.dlc_restart_pos
        water == DeepDiff(self.tera_water_disable, other.tera_water_disable,
                          ScaleTranslateDiff)
    IN IF ~b.some THEN Value([dlc_restart_pos |-> a, tera_water_disable |-> water])
       ELSE IF ~a.some
       THEN Value([dlc_restart_pos |-> b, tera_water_disable |-> water])
       ELSE IF RestartMapDiff(a.v, b.v) = Panic THEN Panic
       ELSE Value([dlc_restart_pos |-> Some(RestartMapDiff(a.v, b.v).v),
                   tera_water_disable |-> water])

\* MainStatic::merge.
MainStaticMerge(self, d) ==
    LET a == self.dlc_restart_pos
        b == d.dlc_restart_pos
    IN [dlc_restart_pos |->
            IF ~b.some THEN a
            ELSE IF ~a.some THEN b
            ELSE Some(DeepMerge(a.v, b.v, RestartPosMerge)),
        tera_water_disable |->
            DeepMerge(self.tera_water_disable, d.tera_water_disable,
                      ScaleTranslateMerge)]

Axes == {PlainVec({1}), PlainVec({2})}
RestartPoses == {[translate |-> t, unique_name |-> Some(n)] : t \in Axes, n \in {"Start", "Goal"}}
ScaleTranslates == {[scale |-> sc, translate |-> t] : sc \in Axes, t \in Axes}
MainStatics ==
    {[dlc_restart_pos |-> r, tera_water_disable |-> PlainMap(w)] :
        r \in {None} \cup {Some(PlainMap(m)) :
                   m \in UNION {[ks -> RestartPoses] : ks \in SUBSET {"r1"}}},
        w \in UNION {[ks -> ScaleTranslates] : ks \in SUBSET {"w1"}}}

\* The placed-object records of mainfield, each with two of its scalar
\* fields and its translate (a DeleteMap<char, f32>).
\* LocationPointer::diff and merge.
LocationPointerDiff(self, other) ==
    [location_priority |-> FieldDiff(self.location_priority, other.location_priority),
     message_id |-> FieldDiff(self.message_id, other.message_id),
     translate |-> MapDiff(self.translate, other.translate)]

LocationPointerMerge(self, d) ==
    [location_priority |-> FieldMergeEq(self.location_priority, d.location_priority),
     message_id |-> FieldMergeEq(self.message_id, d.message_id),
     translate |-> MapMerge(self.translate, d.translate)]

\* CollabAnchor::diff and merge.
CollabAnchorDiff(self, other) ==
    [collabo_shooting_star_direction |->
        FieldDiff(self.collabo_shooting_star_direction,
                  other.collabo_shooting_star_direction),
     collabo_ssopen_flag_name |->
        FieldDiff(self.collabo_ssopen_flag_name, other.collabo_ssopen_flag_name),
     translate |-> MapDiff(self.translate, other.translate)]

CollabAnchorMerge(self, d) ==
    [collabo_shooting_star_direction |->
        FieldMergeOr(self.collabo_shooting_star_direction,
                     d.collabo_shooting_star_direction),
     collabo_ssopen_flag_name |->
        FieldMergeOr(self.collabo_ssopen_flag_name, d.collabo_ssopen_flag_name),
     translate |-> MapMerge(self.translate, d.translate)]

\* RoadNpcRestStation::diff and merge.
RoadNpcRestStationDiff(self, other) ==
    IF FieldDiffPanics(self.rest_only_npc, other.rest_only_npc)
       \/ FieldDiffPanics(self.rotate_y, other.rotate_y)
    THEN Panic
    ELSE Value([rest_only_npc |-> FieldDiff(self.rest_only_npc, other.rest_only_npc),
                rotate_y |-> FieldDiff(self.rotate_y, other.rotate_y),
                translate |-> MapDiff(self.translate, other.translate)])

RoadNpcRestStationMerge(self, d) ==
    [rest_only_npc |-> FieldMergeEq(self.rest_only_npc, d.rest_only_npc),
     rotate_y |-> FieldMergeEq(self.rotate_y, d.rotate_y),
     translate |-> MapMerge(self.translate, d.translate)]

\* NonAutoGenArea::diff and merge (scale is as translate, shape as
\* rotate_y).
NonAutoGenAreaDiff(self, other) ==
    IF FieldDiffPanics(self.enable_auto_flower, other.enable_auto_flower)
       \/ FieldDiffPanics(self.rotate_y, other.rotate_y)
    THEN Panic
    ELSE Value([enable_auto_flower |->
                    FieldDiff(self.enable_auto_flower, other.enable_auto_flower),
                rotate_y |-> FieldDiff(self.rotate_y, other.rotate_y),
                translate |-> MapDiff(self.translate, other.translate)])

NonAutoGenAreaMerge(self, d) ==
    [enable_auto_flower |->
        FieldMergeEq(self.enable_auto_flower, d.enable_auto_flower),
     rotate_y |-> FieldMergeEq(self.rotate_y, d.rotate_y),
     translate |-> MapMerge(self.translate, d.translate)]

Translates == {PlainMap([k \in {"X"} |-> n]) : n \in {1, 2}}
LocationPointers ==
    {[location_priority |-> Some(n), message_id |-> m, translate |-> t] :
        n \in {1, 2}, m \in {None, Some("Shrine")}, t \in Translates}
CollabAnchors ==
    {[collabo_shooting_star_direction |-> Some(n),
      collabo_ssopen_flag_name |-> Some(f), translate |-> t] :
        n \in {1, 2}, f \in {"Open", "Shut"}, t \in Translates}
RoadNpcRestStations ==
    {[rest_only_npc |-> Some(b), rotate_y |-> Some(n), translate |-> t] :
        b \in BOOLEAN, n \in {1, 2}, t \in Translates}
NonAutoGenAreas ==
    {[enable_auto_flower |-> Some(b), rotate_y |-> Some(n), translate |-> t] :
        b \in BOOLEAN, n \in {1, 2}, t \in Translates}

\* a.diff(b) and a.merge(d) for the record type named by kind.
DiffOf(kind, a, b) ==
    CASE kind = "StatusEffectList" -> StatusDiff(a, b)
      [] kind = "Static" -> Value(StaticDiff(a, b))
      [] kind = "MainStatic" -> MainStaticDiff(a, b)
      [] kind = "LocationPointer" -> Value(LocationPointerDiff(a, b))
      [] kind = "CollabAnchor" -> Value(CollabAnchorDiff(a, b))
      [] kind = "NonAutoGenArea" -> NonAutoGenAreaDiff(a, b)
      [] OTHER -> RoadNpcRestStationDiff(a, b)

MergeOf(kind, a, d) ==
    CASE kind = "StatusEffectList" -> StatusMerge(a, d)
      [] kind = "Static" -> Value(StaticMerge(a, d))
      [] kind = "MainStatic" -> Value(MainStaticMerge(a, d))
      [] kind = "LocationPointer" -> Value(LocationPointerMerge(a, d))
      [] kind = "CollabAnchor" -> Value(CollabAnchorMerge(a, d))
      [] kind = "NonAutoGenArea" -> Value(NonAutoGenAreaMerge(a, d))
      [] OTHER -> Value(RoadNpcRestStationMerge(a, d))

\* The values the tests' diff and merge are run on, per record type.
Given(kind, values) ==
    {[op |-> "patch", step |-> "given", kind |-> kind, a |-> a, b |-> b,
      diff |-> Panic, merged |-> Panic] : a \in values, b \in values}

PatchInit ==
    /\ merged = InitMerged
    /\ output = OutFresh
    /\ pending_log = EmptyLog
    /\ checkpoint = Saved(EmptyLog)
    /\ calls = 0
    /\ last \in Given("StatusEffectList", StatusLists)
                \cup Given("Static", Statics)
                \cup Given("MainStatic", MainStatics)
                \cup Given("LocationPointer", LocationPointers)
                \cup Given("CollabAnchor", CollabAnchors)
                \cup Given("RoadNpcRestStation", RoadNpcRestStations)
                \cup Given("NonAutoGenArea", NonAutoGenAreas)

\* let diff = a.diff(&b);
PatchDiff ==
    /\ last.op = "patch" /\ last.step = "given"
    /\ last' = [last EXCEPT !.step = "diffed",
                            !.diff = DiffOf(last.kind, last.a, last.b)]
    /\ UNCHANGED <<merged, output, pending_log, checkpoint, calls>>

\* let merged = a.merge(&diff); not reached if diff panicked.
PatchMerge ==
    /\ last.op = "patch" /\ last.step = "diffed" /\ last.diff # Panic
    /\ last' = [last EXCEPT !.step = "merged",
                            !.merged = MergeOf(last.kind, last.a, last.diff.v)]
    /\ UNCHANGED <<merged, output, pending_log, checkpoint, calls>>

NextPatch == PatchDiff \/ PatchMerge

SpecPatch == PatchInit /\ [][NextPatch]_vars

\* The round trip of a test on the record type `kind`: diff returned a
\* value and, once merge has returned, it returned b.
RoundTrip(kind) ==
    (last.op = "patch" /\ last.kind = kind) =>
        /\ last.step = "diffed" => last.diff # Panic
        /\ last.step = "merged" => last.merged = Value(last.b)

\* C11: for StatusEffectLists a and b whose common effects have the same
\* kind, a.diff(b) and a.merge(a.diff(b)) return and the merge equals b.
C11_StatusRoundTrip ==
    (last.op = "patch" /\ last.kind = "StatusEffectList"
        /\ \A e \in (DOMAIN last.a) \cap (DOMAIN last.b) :
              last.a[e].special = last.b[e].special)
    => RoundTrip("StatusEffectList")

\* C12: for CDungeon Statics a and b, a.merge(a.diff(b)) equals b.
C12_StaticRoundTrip == RoundTrip("Static")

\* C13: for MainStatics a and b, a.merge(a.diff(b)) equals b.
C13_MainStaticRoundTrip == RoundTrip("MainStatic")

\* C14: for a decoded placed-object record a, a.diff(a) returns and
\* a.merge(a.diff(a)) equals a.
C14_RecordIdempotent ==
    (last.op = "patch" /\ last.a = last.b
        /\ last.kind \in {"LocationPointer", "CollabAnchor", "RoadNpcRestStation"})
    => RoundTrip(last.kind)

----------------------------------------------------------------------------
(* The codecs.  A ParameterIO is a function from object names to            *)
(* ParameterObjects, a ParameterObject a function from keys to parameters.  *)
(* A key is <<prefix, width, index, style>>: `format!("{prefix}{index:0w$}")`*)
(* stored as a literal string or as its name hash; a key without an index   *)
(* has width 0 and index 0.  An insertion-ordered map (IndexMap, DeleteMap) *)
(* is the sequence of its [name, val] entries.                              *)

Key(prefix) == <<prefix, 0, 0, "literal">>
Indexed(prefix, width, i) == <<prefix, width, i, "literal">>
Hashed(prefix, width, i) == <<prefix, width, i, "hashed">>

\* A parameter or Byml node of a kind, and its value: the value is held
\* under the name of the kind, as the variant of an enum holds it.
Node(kind, v) == [f \in {"kind", kind} |-> IF f = "kind" THEN kind ELSE v]
Val(node) == node[node.kind]

I32(n) == Node("int", n)
Str64(x) == Node("str", x)
Bool(b) == Node("bool", b)

\* obj.param(key).as_int(), as_string(), as_bool() all succeed.
Has(obj, key, kind) == key \in DOMAIN obj /\ obj[key].kind = kind

DecodeErr == [ok |-> FALSE]
DecodeOk(v) == [ok |-> TRUE, v |-> v]

\* IndexMap::insert: the value of an entry the map has is replaced where
\* it stands, a new entry is appended.
Insert(map, name, val) ==
    IF \E i \in DOMAIN map : map[i].name = name
    THEN [i \in DOMAIN map |->
             IF map[i].name = name THEN [name |-> name, val |-> val] ELSE map[i]]
    ELSE Append(map, [name |-> name, val |-> val])

\* collect() of a sequence of entries into such a map.
RECURSIVE CollectFrom(_, _)
CollectFrom(map, entries) ==
    IF entries = <<>> THEN map
    ELSE CollectFrom(Insert(map, Head(entries).name, Head(entries).val),
                     Tail(entries))

Collect(entries) == CollectFrom(<<>>, entries)

\* A ShopItem with all its fields.
Item(sort, num, adjust_price, look_get_flag, amount) ==
    [sort |-> sort, num |-> num, adjust_price |-> adjust_price,
     look_get_flag |-> look_get_flag, amount |-> amount, delete |-> FALSE]

ItemFields == {"ItemSort", "ItemName", "ItemNum", "ItemAdjustPrice",
               "ItemLookGetFlg", "ItemAmount"}

\* From<ShopData> for ParameterIO: the header object.
ShopHeader(shop) ==
    [k \in {Key("TableNum")} \cup {Indexed("Table", 2, i) : i \in DOMAIN shop} |->
        IF k = Key("TableNum") THEN I32(Len(shop)) ELSE Str64(shop[k[3]].name)]

\* The object of one table: ColumnNum, then the fields of the items that
\* are not flagged delete, numbered from 1.
ShopTableObject(table) ==
    LET live == SelectSeq(table, LAMBDA e : ~e.val.delete)
        Field(k) ==
            CASE k[1] = "ItemSort" -> I32(live[k[3]].val.sort)
              [] k[1] = "ItemName" -> Str64(live[k[3]].name)
              [] k[1] = "ItemNum" -> I32(live[k[3]].val.num)
              [] k[1] = "ItemAdjustPrice" -> I32(live[k[3]].val.adjust_price)
              [] k[1] = "ItemLookGetFlg" -> Bool(live[k[3]].val.look_get_flag)
              [] OTHER -> I32(live[k[3]].val.amount)
    IN [k \in {Key("ColumnNum")}
              \cup {Indexed(f, 3, i) : f \in ItemFields, i \in DOMAIN live} |->
           IF k = Key("ColumnNum") THEN I32(Len(table)) ELSE Field(k)]

\* From<ShopData> for ParameterIO: the header and the tables that are Some.
ShopEncode(shop) ==
    [o \in {"Header"} \cup {shop[i].name : i \in {i \in DOMAIN shop : shop[i].val.some}} |->
        IF o = "Header" THEN ShopHeader(shop)
        ELSE ShopTableObject(
                shop[CHOOSE i \in DOMAIN shop : shop[i].name = o].val.table)]

\* The keys one item of a shop table is read from, with the parameter
\* type each must have; ItemAmount is not among them.
ItemReads == {<<"ItemName", "str">>, <<"ItemSort", "int">>, <<"ItemNum", "int">>,
              <<"ItemAdjustPrice", "int">>, <<"ItemLookGetFlg", "bool">>}

\* The item at index i of a table object: amount is read from
\* ItemAdjustPrice.
ShopItemAt(obj, i) ==
    [name |-> Val(obj[Indexed("ItemName", 3, i)]),
     val |-> Item(Val(obj[Indexed("ItemSort", 3, i)]),
                  Val(obj[Indexed("ItemNum", 3, i)]),
                  Val(obj[Indexed("ItemAdjustPrice", 3, i)]),
                  Val(obj[Indexed("ItemLookGetFlg", 3, i)]),
                  Val(obj[Indexed("ItemAdjustPrice", 3, i)]))]

\* TryFrom<&ParameterIO> for ShopData: one table object.
ShopTableDecode(obj) ==
    IF ~Has(obj, Key("ColumnNum"), "int") THEN DecodeErr
    ELSE With(Val(obj[Key("ColumnNum")]), LAMBDA column_num :
        IF \E i \in 1..column_num : \E r \in ItemReads :
               ~Has(obj, Indexed(r[1], 3, i), r[2])
        THEN DecodeErr
        ELSE DecodeOk(Collect([i \in 1..column_num |-> ShopItemAt(obj, i)])))

\* The names the header lists: (1..=table_count).filter_map(..) keeps the
\* indices whose Table%02 parameter is there and is a string.
HeaderTables(header, table_count) ==
    LET listed == SelectSeq([i \in 1..table_count |-> i],
                            LAMBDA i : Has(header, Indexed("Table", 2, i), "str"))
    IN [j \in DOMAIN listed |-> Val(header[Indexed("Table", 2, listed[j])])]

\* TryFrom<&ParameterIO> for ShopData.
ShopDecode(pio) ==
    IF "Header" \notin DOMAIN pio \/ ~Has(pio["Header"], Key("TableNum"), "int")
    THEN DecodeErr
    ELSE With(HeaderTables(pio["Header"], Val(pio["Header"][Key("TableNum")])),
              LAMBDA tables :
        IF \E j \in DOMAIN tables :
               \/ tables[j] \notin DOMAIN pio
               \/ ~ShopTableDecode(pio[tables[j]]).ok
        THEN DecodeErr
        ELSE DecodeOk(Collect([j \in DOMAIN tables |->
                 [name |-> tables[j],
                  val |-> SomeTable(ShopTableDecode(pio[tables[j]]).v)]])))

\* Recipe tables.  Key::to_string gives back the literal string of a key
\* stored as one; a key stored as a hash has no prefix to strip.
\* parse_item_index: the trailing digits of a literal key of the prefix,
\* whatever their number.
parse_item_index(key, prefix) ==
    IF key[4] = "literal" /\ key[1] = prefix /\ key[2] > 0
    THEN Some(key[3]) ELSE None

\* The indices and paddings recipe_key_map holds the hashes of.
MaxKeyIndex == 999
KeyWidths == {2, 3}

\* identify_recipe_key with the hash of only one padding in the map.
identify_recipe_key_one_width(key) ==
    IF key[1] \in {"ItemName", "ItemNum"} /\ key[2] = 2 /\ key[3] \in 0..MaxKeyIndex
    THEN Some([kind |-> key[1], index |-> key[3]]) ELSE None

\* identify_recipe_key: the (kind, index) recipe_key_map has for the hash.
identify_recipe_key(key) ==
    IF key[1] \in {"ItemName", "ItemNum"} /\ key[2] \in KeyWidths
       /\ key[3] \in 0..MaxKeyIndex
    THEN Some([kind |-> key[1], index |-> key[3]]) ELSE None

\* The (kind, index) one key of a table is entered under, in the order
\* parse_recipe_table_from_keys tries: literal name, literal count, hash.
KeyMatch(key) ==
    IF parse_item_index(key, "ItemName").some
    THEN Some([kind |-> "ItemName", index |-> parse_item_index(key, "ItemName").v])
    ELSE IF parse_item_index(key, "ItemNum").some
    THEN Some([kind |-> "ItemNum", index |-> parse_item_index(key, "ItemNum").v])
    ELSE identify_recipe_key(key)

\* parse_recipe_count: an int that fits u8.
U8Max == 255
CountOk(param) == param.kind = "int" /\ Val(param) \in 0..U8Max

\* The elements of a set of indices in ascending order (BTreeMap iteration).
RECURSIVE Ascending(_)
Ascending(S) ==
    IF S = {} THEN <<>>
    ELSE LET least == CHOOSE x \in S : \A y \in S : x <= y
         IN <<least>> \o Ascending(S \ {least})

\* parse_recipe_table_from_keys: None when no key is an item key, an
\* error when a value has the wrong kind or an index has only one of its
\* two keys, else the entries in ascending index order, inserted by name.
\* (A table holding two keys of one kind and index keeps the one iterated
\* last; the tables considered here hold one.)
parse_recipe_table_from_keys(table) ==
    LET keys(kind) == {k \in DOMAIN table : KeyMatch(k).some /\ KeyMatch(k).v.kind = kind}
        at(kind, i) == CHOOSE k \in keys(kind) : KeyMatch(k).v.index = i
        indices(kind) == {KeyMatch(k).v.index : k \in keys(kind)}
        entries == indices("ItemName") \cup indices("ItemNum")
    IN IF \/ \E k \in keys("ItemName") : table[k].kind # "str"
          \/ \E k \in keys("ItemNum") : ~CountOk(table[k])
       THEN DecodeErr
       ELSE IF entries = {} THEN DecodeOk(None)
       ELSE IF indices("ItemName") # indices("ItemNum") THEN DecodeErr
       ELSE With(Ascending(entries), LAMBDA order :
            DecodeOk(Some(Collect([j \in DOMAIN order |->
                [name |-> Val(table[at("ItemName", order[j])]),
                 val |-> Val(table[at("ItemNum", order[j])])]]))))

\* ParameterObject::get of the key format!("{prefix}{i:0width$}"): keys
\* are looked up by hash, however they were stored.
Get(obj, prefix, width, i) ==
    IF Indexed(prefix, width, i) \in DOMAIN obj
    THEN Some(obj[Indexed(prefix, width, i)])
    ELSE IF Hashed(prefix, width, i) \in DOMAIN obj
    THEN Some(obj[Hashed(prefix, width, i)])
    ELSE None

GetKind(obj, prefix, width, i, kind) ==
    Get(obj, prefix, width, i).some /\ Get(obj, prefix, width, i).v.kind = kind

\* The closure `process` of one padding: the items 1..=count read by name.
ProcessWidth(table, count, width) ==
    IF \A i \in 1..count : /\ GetKind(table, "ItemName", width, i, "str")
                           /\ GetKind(table, "ItemNum", width, i, "int")
    THEN DecodeOk(Collect([i \in 1..count |->
             [name |-> Val(Get(table, "ItemName", width, i).v),
              val |-> Val(Get(table, "ItemNum", width, i).v)]]))
    ELSE DecodeErr

\* process(count): padding 2, or else padding 3.
Process(table, count) ==
    IF ProcessWidth(table, count, 2).ok THEN ProcessWidth(table, count, 2)
    ELSE ProcessWidth(table, count, 3)

\* One table of TryFrom<&ParameterIO> for Recipe: by its keys, or else by
\* ColumnNum, or else by the count re-derived from the number of keys.
RecipeTableDecode(table) ==
    With(parse_recipe_table_from_keys(table), LAMBDA by_keys :
        IF ~by_keys.ok THEN DecodeErr
        ELSE IF by_keys.v.some THEN DecodeOk(by_keys.v.v)
        ELSE IF ~Has(table, Key("ColumnNum"), "int") THEN DecodeErr
        ELSE IF Process(table, Val(table[Key("ColumnNum")])).ok
        THEN Process(table, Val(table[Key("ColumnNum")]))
        ELSE Process(table, (Cardinality(DOMAIN table) - 1) \div 2))

\* TryFrom<&ParameterIO> for Recipe: every Table%02 below TableNum must be
\* there and be a string, and every table it names must decode.
RecipeDecode(pio) ==
    IF "Header" \notin DOMAIN pio \/ ~Has(pio["Header"], Key("TableNum"), "int")
    THEN DecodeErr
    ELSE With(pio["Header"], LAMBDA header :
        IF \E i \in 1..Val(header[Key("TableNum")]) : ~GetKind(header, "Table", 2, i, "str")
        THEN DecodeErr
        ELSE With([i \in 1..Val(header[Key("TableNum")]) |-> Val(Get(header, "Table", 2, i).v)],
                  LAMBDA table_names :
            IF \E j \in DOMAIN table_names :
                   \/ table_names[j] \notin DOMAIN pio
                   \/ ~RecipeTableDecode(pio[table_names[j]]).ok
            THEN DecodeErr
            ELSE DecodeOk(Collect([j \in DOMAIN table_names |->
                     [name |-> table_names[j],
                      val |-> RecipeTableDecode(pio[table_names[j]]).v]]))))

\* CDungeon Static.  The value of a Byml map node is a function from its
\* keys to nodes, the value of an array node a sequence of nodes.

\* The EntryPos of a start-position entry.
EntryPosOf(entry) ==
    [rotate |-> Val(entry)["Rotate"], translate |-> Val(entry)["Translate"],
     player_state |-> IF "PlayerState" \in DOMAIN Val(entry)
                      THEN Some(Val(Val(entry)["PlayerState"])) ELSE None]

\* What one step of the try_fold does with an entry: an error, the map
\* unchanged when the entry has no PosName, or the map with the entry put
\* under its Map name.
StartPosStep(entry_map, entry) ==
    IF entry.kind # "map" \/ ~Has(Val(entry), "Map", "str") THEN DecodeErr
    ELSE IF "PosName" \notin DOMAIN Val(entry) THEN DecodeOk(entry_map)
    ELSE IF Val(entry)["PosName"].kind # "str" THEN DecodeErr
    ELSE IF "Rotate" \notin DOMAIN Val(entry) \/ "Translate" \notin DOMAIN Val(entry)
    THEN DecodeErr
    ELSE IF "PlayerState" \in DOMAIN Val(entry) /\ Val(entry)["PlayerState"].kind # "str"
    THEN DecodeErr
    ELSE LET map == Val(Val(entry)["Map"])
             had == {i \in DOMAIN entry_map : entry_map[i].name = map}
             old == IF had = {} THEN <<>> ELSE entry_map[CHOOSE i \in had : TRUE].val
         IN DecodeOk(Insert(entry_map, map,
                Insert(old, Val(Val(entry)["PosName"]), EntryPosOf(entry))))

RECURSIVE StartPosFold(_, _)
StartPosFold(entry_map, entries) ==
    IF entries = <<>> THEN DecodeOk(entry_map)
    ELSE With(StartPosStep(entry_map, Head(entries)), LAMBDA step :
        IF ~step.ok THEN DecodeErr ELSE StartPosFold(step.v, Tail(entries)))

\* TryFrom<&Byml> for Static.
StaticDecode(byml) ==
    IF byml.kind # "map" \/ ~Has(Val(byml), "StartPos", "array") THEN DecodeErr
    ELSE With(StartPosFold(<<>>, Val(Val(byml)["StartPos"])), LAMBDA start_pos :
        IF ~start_pos.ok THEN DecodeErr
        ELSE IF \E k \in DOMAIN Val(byml) : Val(byml)[k].kind # "array" THEN DecodeErr
        ELSE DecodeOk([start_pos |-> start_pos.v,
                       general |-> [k \in DOMAIN Val(byml) \ {"StartPos"} |-> Val(Val(byml)[k])]]))

\* The records and documents the codecs are run on.
MaxItems == 2

\* The sequences of at most n entries with distinct names from `names`
\* and values from `vals`.
Maps(names, vals, n) ==
    {m \in UNION {[1..k -> [name : names, val : vals]] : k \in 0..n} :
        \A i, j \in DOMAIN m : m[i].name = m[j].name => i = j}

CodecItems == {Item(1, 1, 0, FALSE, 0), Item(2, 3, 1, TRUE, 1), Item(2, 1, 0, TRUE, 5)}

CodecTables ==
    {SomeTable(t) : t \in Maps(ItemNames, CodecItems, MaxItems)}
        \cup {NoTable,
              SomeTable(<<[name |-> "Arrow", val |-> with_delete(Item(1, 1, 0, FALSE, 0))]>>)}

CodecShops == Maps(TableNames, CodecTables, 2)

\* A recipe table as the game files store it: indices from `base`, padded
\* to `width`, keys literal or hashed.  A function has no order of keys:
\* every order of listing them is this one table.
RecipeTableObject(items, base, width, style) ==
    [k \in {Key("ColumnNum")}
           \cup {<<f, width, i + base - 1, style>> : f \in {"ItemName", "ItemNum"},
                                                      i \in DOMAIN items} |->
        IF k = Key("ColumnNum") THEN I32(Len(items))
        ELSE IF k[1] = "ItemName" THEN Str64(items[k[3] - base + 1].name)
        ELSE I32(items[k[3] - base + 1].val)]

RecipeNames == {"Apple", "Acorn"}
RecipeCounts == {1, 2}

\* The item lists of a table, item names repeated or not.
RecipeItems ==
    UNION {[1..k -> [name : RecipeNames, val : RecipeCounts]] : k \in 1..MaxItems}

RecipeTableObjects ==
    {RecipeTableObject(items, base, width, style) :
        items \in RecipeItems, base \in {0, 1}, width \in KeyWidths,
        style \in {"literal", "hashed"}}

\* A recipe of the one table "Normal0".
RecipeOf(table) ==
    [o \in {"Header", "Normal0"} |->
        IF o = "Header"
        THEN [k \in {Key("TableNum"), Indexed("Table", 2, 1)} |->
                 IF k = Key("TableNum") THEN I32(1) ELSE Str64("Normal0")]
        ELSE table]

\* The documents a ParameterIO becomes by losing one parameter, by one
\* parameter changing its type, or by losing one object.
Mistyped(param) == IF param.kind = "bool" THEN I32(0) ELSE Bool(TRUE)

Damaged(pio) ==
    UNION {{[pio EXCEPT ![o] = [k \in DOMAIN pio[o] \ {key} |-> pio[o][k]]] :
               key \in DOMAIN pio[o]} : o \in DOMAIN pio}
    \cup UNION {{[pio EXCEPT ![o][key] = Mistyped(pio[o][key])] : key \in DOMAIN pio[o]} :
                   o \in DOMAIN pio}
    \cup {[x \in DOMAIN pio \ {o} |-> pio[x]] : o \in DOMAIN pio}

\* A recipe table that lost both keys of its last index, ColumnNum kept.
Shortened(table) ==
    LET last_index == CHOOSE i \in {k[3] : k \in DOMAIN table} :
                          \A k \in DOMAIN table : k[3] <= i
    IN [k \in {k \in DOMAIN table : k[2] = 0 \/ k[3] # last_index} |-> table[k]]

\* Start-position entries: of all fields, of all but one, of Map alone, and
\* with another or a mistyped PosName.
StartPosEntry(fields) ==
    Node("map", [f \in fields |->
        CASE f = "Map" -> Node("str", "Dungeon000")
          [] f = "PosName" -> Node("str", "Entrance_1")
          [] f = "PlayerState" -> Node("str", "Wait")
          [] OTHER -> Node("array", <<0, 0, 0>>)])

EntryFields == {"Map", "PosName", "Rotate", "Translate", "PlayerState"}

StartPosEntries == {StartPosEntry(EntryFields \ {f}) : f \in EntryFields}
    \cup {StartPosEntry(EntryFields), StartPosEntry({"Map"})}
    \cup {Node("map", [Val(StartPosEntry(EntryFields)) EXCEPT !["PosName"] = Node("str", "Entrance_2")]),
          Node("map", [Val(StartPosEntry(EntryFields)) EXCEPT !["PosName"] = Node("int", 1)])}

StaticDocs ==
    {Node("map", [k \in {"StartPos", "DgnObj"} |->
                     IF k = "StartPos" THEN Node("array", entries)
                     ELSE Node("array", <<>>)]) :
        entries \in UNION {[1..k -> StartPosEntries] : k \in 0..MaxItems}}
    \cup {Node("map", [k \in {"DgnObj"} |-> Node("array", <<>>)])}

\* The shops whose encodings are damaged.
DamagedShops ==
    {shop \in CodecShops : Len(shop) = 2 /\ shop[1].name = "Normal"
        /\ \A i \in DOMAIN shop : shop[i].val.some /\ Len(shop[i].val.table) = 1
                                   /\ shop[i].val.table[1].name = "Arrow"
                                   /\ shop[i].val.table[1].val = Item(2, 3, 1, TRUE, 1)}

Documents(format) ==
    CASE format = "shop" -> UNION {Damaged(ShopEncode(shop)) : shop \in DamagedShops}
      [] format = "recipe" ->
             {RecipeOf(t) : t \in RecipeTableObjects}
                 \cup {RecipeOf(Shortened(t)) : t \in RecipeTableObjects}
                 \cup UNION {Damaged(RecipeOf(t)) : t \in RecipeTableObjects}
      [] OTHER -> StaticDocs

\* The decoder of each format.
DecodeOf(format, doc) ==
    CASE format = "shop" -> ShopDecode(doc)
      [] format = "recipe" -> RecipeDecode(doc)
      [] OTHER -> StaticDecode(doc)

CodecInit ==
    /\ merged = InitMerged
    /\ output = OutFresh
    /\ pending_log = EmptyLog
    /\ checkpoint = Saved(EmptyLog)
    /\ calls = 0
    /\ last \in {[op |-> "codec", step |-> "record", from |-> "record",
                  format |-> "shop", r |-> shop, doc |-> <<>>, out |-> None] :
                     shop \in CodecShops}
           \cup UNION {{[op |-> "codec", step |-> "document", from |-> "document",
                         format |-> format, r |-> <<>>, doc |-> doc, out |-> None] :
                            doc \in Documents(format)} :
                          format \in {"shop", "recipe", "static"}}

\* let pio: ParameterIO = record.into();
Encode ==
    /\ last.op = "codec" /\ last.step = "record"
    /\ last' = [last EXCEPT !.step = "document", !.doc = ShopEncode(last.r)]
    /\ UNCHANGED <<merged, output, pending_log, checkpoint, calls>>

\* let record = T::try_from(&document);
Decode ==
    /\ last.op = "codec" /\ last.step = "document"
    /\ last' = [last EXCEPT !.step = "decoded",
                            !.out = DecodeOf(last.format, last.doc)]
    /\ UNCHANGED <<merged, output, pending_log, checkpoint, calls>>

NextCodec == Encode \/ Decode

SpecCodec == CodecInit /\ [][NextCodec]_vars

\* Every table of the shop is present and holds no delete-flagged item.
AllPresent(shop) ==
    \A i \in DOMAIN shop :
        shop[i].val.some /\ \A j \in DOMAIN shop[i].val.table : ~shop[i].val.table[j].val.delete

\* C16: for a ShopData record whose tables are all present and hold no
\* delete-flagged item, decoding its encoding returns the record itself:
\* the same tables and items in the same order, equal in every field.
C16_ShopCodecRoundTrip ==
    (last.op = "codec" /\ last.step = "decoded" /\ last.from = "record"
        /\ AllPresent(last.r))
    => last.out = DecodeOk(last.r)

\* The decoded document is the recipe whose one table stores `items`
\* under some indexing, padding and key style, and the decoder returned
\* that item list: one entry per index, in ascending index order.
DecodesTo(items) ==
    (\E base \in {0, 1}, width \in KeyWidths, style \in {"literal", "hashed"} :
        last.doc = RecipeOf(RecipeTableObject(items, base, width, style)))
    => last.out = DecodeOk(<<[name |-> "Normal0", val |-> items]>>)

\* C17 as stated: a recipe table whose item keys are zero- or one-based,
\* padded to 2 or 3 digits, literal or hashed, decodes to one (name, count)
\* entry per index in ascending index order.
C17_RecipeKeysOriginal ==
    (last.op = "codec" /\ last.step = "decoded" /\ last.format = "recipe")
    => \A items \in RecipeItems : DecodesTo(items)

\* C17 amended: the same for a table whose item names are pairwise
\* distinct; the decoded table is keyed by item name.
C17_RecipeKeys ==
    (last.op = "codec" /\ last.step = "decoded" /\ last.format = "recipe")
    => \A items \in RecipeItems :
           (\A i, j \in DOMAIN items : items[i].name = items[j].name => i = j)
           => DecodesTo(items)

\* C17 witness: a table of two items under zero-based, 3-digit hashed keys
\* has been decoded.
C17_Witness ==
    /\ last.op = "codec" /\ last.step = "decoded" /\ last.format = "recipe"
    /\ last.doc = RecipeOf(RecipeTableObject(
           <<[name |-> "Apple", val |-> 2], [name |-> "Acorn", val |-> 1]>>,
           0, 3, "hashed"))
    /\ last.out.ok

\* A header that lacks TableNum, or a Table%02 string below TableNum.
HeaderLacks(pio) ==
    IF "Header" \notin DOMAIN pio \/ ~Has(pio["Header"], Key("TableNum"), "int")
    THEN TRUE
    ELSE \E i \in 1..Val(pio["Header"][Key("TableNum")]) :
             ~GetKind(pio["Header"], "Table", 2, i, "str")

\* The tables the header names.
Declared(pio) ==
    IF "Header" \notin DOMAIN pio \/ ~Has(pio["Header"], Key("TableNum"), "int")
    THEN {}
    ELSE {Val(Get(pio["Header"], "Table", 2, i).v) :
             i \in {i \in 1..Val(pio["Header"][Key("TableNum")]) :
                       GetKind(pio["Header"], "Table", 2, i, "str")}}

\* A shop table that is absent, or lacks ColumnNum or a field of an item
\* below ColumnNum.
ShopTableLacks(pio, name) ==
    IF name \notin DOMAIN pio \/ ~Has(pio[name], Key("ColumnNum"), "int") THEN TRUE
    ELSE \E i \in 1..Val(pio[name][Key("ColumnNum")]) : \E r \in ItemReads :
             ~Has(pio[name], Indexed(r[1], 3, i), r[2])

\* A recipe table that is absent, or lacks ColumnNum, or has neither the
\* zero-based nor the one-based indices below ColumnNum complete.
RecipeTableLacks(pio, name) ==
    IF name \notin DOMAIN pio \/ ~Has(pio[name], Key("ColumnNum"), "int") THEN TRUE
    ELSE \A base \in {0, 1} :
             \E i \in base..(base + Val(pio[name][Key("ColumnNum")]) - 1) :
                 \A width \in KeyWidths :
                     \/ ~GetKind(pio[name], "ItemName", width, i, "str")
                     \/ ~GetKind(pio[name], "ItemNum", width, i, "int")

\* A Static without a StartPos array, or with a start-position entry that
\* lacks Map, PosName, Rotate or Translate or has a name that is no string.
StaticLacks(byml) ==
    IF byml.kind # "map" \/ ~Has(Val(byml), "StartPos", "array") THEN TRUE
    ELSE \E j \in DOMAIN Val(Val(byml)["StartPos"]) :
             LET entry == Val(Val(byml)["StartPos"])[j]
             IN \/ entry.kind # "map"
                \/ ~Has(Val(entry), "Map", "str")
                \/ ~Has(Val(entry), "PosName", "str")
                \/ {"Rotate", "Translate"} \ DOMAIN Val(entry) # {}
                \/ "PlayerState" \in DOMAIN Val(entry)
                       /\ Val(entry)["PlayerState"].kind # "str"

\* The document lacks a key its record declares or requires, or has it
\* with the wrong kind.
Lacks(format, doc) ==
    CASE format = "shop" ->
             HeaderLacks(doc) \/ \E name \in Declared(doc) : ShopTableLacks(doc, name)
      [] format = "recipe" ->
             HeaderLacks(doc) \/ \E name \in Declared(doc) : RecipeTableLacks(doc, name)
      [] OTHER -> StaticLacks(doc)

\* C18: decoding a document that lacks a key its record declares or
\* requires, or has it with the wrong kind, returns an error.
C18_DecodeAllOrNothing ==
    (last.op = "codec" /\ last.step = "decoded" /\ Lacks(last.format, last.doc))
    => ~last.out.ok

----------------------------------------------------------------------------
(* The Symlink method of Manager::deploy.                                   *)

\* The call that just returned was deploy() with the Symlink method.
SymlinkDeployed == last.op = "deploy" /\ last.method = "symlink"

\* C19: after deploy() with the Symlink method has returned Ok, each of
\* the content and aoc destinations is a link to its staging subtree if
\* that subtree exists, and is neither link nor directory if it does not.
C19_SymlinkOutcome ==
    (SymlinkDeployed /\ last.ok) =>
        \A sub \in {"content", "aoc"} :
            IF Exists(merged[sub], <<>>)
            THEN output[sub] = Link("merged")
            ELSE output[sub] = Real(NoTree)

\* C20: a deploy() with the Symlink method that finds a link leading
\* elsewhere where the staging subtree exists leaves a link there,
\* whether it returns Ok or an error.
C20_AtomicReplace ==
    [][(calls' = calls + 1 /\ SymlinkDeployed')
        => \A sub \in {"content", "aoc"} :
               (output[sub].link = "other" /\ Exists(merged[sub], <<>>))
               => is_symlink(output'[sub])]_vars

----------------------------------------------------------------------------
(* The shape of the Folder trees of the pending log.                        *)

\* No name of the Folder is both a file and a directory, and every
\* directory entry holds a file or a directory entry, at every depth.
RECURSIVE WellFormed(_)
WellFormed(folder) ==
    /\ folder.files \cap DOMAIN folder.folders = {}
    /\ \A d \in DOMAIN folder.folders :
          has_some(folder.folders[d]) /\ WellFormed(folder.folders[d])

\* C21: in every state of the manager each of the four Folder trees of the
\* pending log lists no path twice and has no directory entry that is
\* empty, whether the calls that built it returned Ok or an error.
C21_FoldersWellFormed ==
    /\ WellFormed(pending_log.content_copies)
    /\ WellFormed(pending_log.aoc_copies)
    /\ WellFormed(pending_log.content_deletes)
    /\ WellFormed(pending_log.aoc_deletes)

----------------------------------------------------------------------------
(* Folding flat path sets into Folder trees.                                *)

\* The canonical file paths folded: files at the top level and files
\* under one, two and three directory segments.
FoldPaths ==
    {PathOrder[i] : i \in {j \in 1..Len(PathOrder) : HasDot(Last(PathOrder[j]))}}

FoldInit ==
    /\ merged = InitMerged
    /\ output = OutFresh
    /\ pending_log = EmptyLog
    /\ checkpoint = Missing
    /\ calls = 0
    /\ last \in {[op |-> "fold", step |-> "paths", paths |-> P,
                  r |-> [ok |-> FALSE, folder |-> EmptyFolder]] :
                     P \in SUBSET FoldPaths}

\* let mut folder = Folder::default(); folder.extend(paths)
Extend ==
    /\ last.op = "fold" /\ last.step = "paths"
    /\ last' = [last EXCEPT !.step = "extended",
                            !.r = extend(EmptyFolder, last.paths)]
    /\ UNCHANGED <<merged, output, pending_log, checkpoint, calls>>

\* convert_set(paths) of the upgrade of a legacy checkpoint
Upgrade ==
    /\ last.op = "fold" /\ last.step = "paths"
    /\ last' = [last EXCEPT !.step = "upgraded",
                            !.r = convert_set(last.paths)]
    /\ UNCHANGED <<merged, output, pending_log, checkpoint, calls>>

NextFold == Extend \/ Upgrade

SpecFold == FoldInit /\ [][NextFold]_vars

\* Folder::extend on an empty tree returns Ok with a tree whose file paths
\* are the paths given, and folding the paths in any other order gives the
\* same tree.
ExtendPreservesPaths ==
    (last.op = "fold" /\ last.step = "extended") =>
        /\ last.r.ok
        /\ FilePaths(last.r.folder) = last.paths
        /\ \A order \in Perms(last.paths) :
              ExtendSeq(EmptyFolder, order) = last.r

\* C22: folding a set of canonical file paths, by Folder::extend on an
\* empty tree or by the upgrade of a legacy checkpoint, returns Ok with a
\* tree whose set of file paths is exactly the set given, top-level files
\* included.
C22_FoldingPreservesPaths ==
    /\ ExtendPreservesPaths
    /\ (last.op = "fold" /\ last.step = "upgraded") =>
          last.r.ok /\ FilePaths(last.r.folder) = last.paths

----------------------------------------------------------------------------
(* The field-wise diff of the mainfield records.                            *)

MainfieldKinds ==
    {"LocationPointer", "CollabAnchor", "RoadNpcRestStation", "NonAutoGenArea"}

\* The scalar fields of a mainfield record: all but its translate map.
ScalarFields(record) == (DOMAIN record) \ {"translate"}

\* C23: for two records a and b of one mainfield type a.diff(b) returns,
\* and each scalar field of the patch holds b's value where it differs
\* from a's and None where the two are equal.
C23_FieldDiffTotal ==
    (last.op = "patch" /\ last.kind \in MainfieldKinds /\ last.step = "diffed")
    => /\ last.diff # Panic
       /\ \A f \in ScalarFields(last.a) :
             last.diff.v[f] = IF last.b[f] # last.a[f] THEN last.b[f] ELSE None

\* The same for the types whose diff ends in unwrap_or_default.
DefaultingDiffTotal ==
    (last.op = "patch" /\ last.kind \in {"LocationPointer", "CollabAnchor"}
        /\ last.step = "diffed")
    => /\ last.diff # Panic
       /\ \A f \in ScalarFields(last.a) :
             last.diff.v[f] = IF last.b[f] # last.a[f] THEN last.b[f] ELSE None

----------------------------------------------------------------------------
(* The order of the operations of a Copy or HardLink deployment.            *)

DeletePhases == {"1 content_deletes", "2 aoc_deletes"}
CopyPhases == {"3 content_copies", "4 aoc_copies"}

\* The operations a step of the run carries out.
Started == IF last.op = "exec" /\ last'.op = "exec"
           THEN last'.done \ last.done ELSE {}

\* The operations of the delete trees listed beneath the directory of o.
Beneath(o) ==
    {d \in ExecOps(last.method, pending_log) :
        d.phase = o.phase /\ IsPrefix(o.path, d.path) /\ d.path # o.path}

\* C24: when an operation of a copy tree starts, every operation of the
\* two delete trees is done; when a listed directory is removed, the
\* deletion of every entry listed beneath it is done.
C24_DeletesBeforeCopies ==
    [][\A o \in Started :
          /\ o.phase \in CopyPhases =>
                \A d \in ExecOps(last.method, pending_log) :
                   d.phase \in DeletePhases => d \in last.done
          /\ o.kind = "rmdir" => Beneath(o) \subseteq last.done]_vars

\* C24 witness: a run has removed a file listed beneath a directory of a
\* delete tree, then the directory, and has copied or linked a file.
C24_Witness ==
    /\ last.op = "exec"
    /\ \E o \in last.done : o.phase \in CopyPhases /\ o.kind \in {"copy", "link"}
    /\ \E d \in last.done :
          /\ d.kind = "rmdir"
          /\ \E e \in last.done : e.kind = "rm" /\ e \in Beneath(d)

----------------------------------------------------------------------------
(* A name that is a directory in one tree and a regular file in the other.  *)

\* Staging and deployed trees in which A is a directory holding x.bin, and
\* in which A is a regular file.
ContentDirA == WriteAll(NoTree, {<<"A", "x.bin">>}, File(2, 2))
ContentFileA == WriteAll(NoTree, {<<"A">>, <<"y.bin">>}, File(2, 2))
OldDirA == WriteAll(NoTree, {<<"A", "x.bin">>, <<"y.bin">>}, File(1, 1))
OldFileA == WriteAll(NoTree, {<<"A">>}, File(1, 1))

KindStagings == {[content |-> c, aoc |-> EmptyDir] : c \in {ContentDirA, ContentFileA}}
KindOutputs ==
    {[content |-> Real(c), aoc |-> Real(a)] :
        c \in {OldDirA, OldFileA}, a \in {NoTree, EmptyDir, OldFileA}}

KindInit ==
    /\ merged \in KindStagings
    /\ output \in KindOutputs
    /\ pending_log = EmptyLog
    /\ checkpoint = Saved(EmptyLog)
    /\ last = [op |-> "new"]
    /\ calls = 0

NextKind == ResetPending \/ Deploy

SpecKind == KindInit /\ [][NextKind]_vars

\* The paths that are a directory in one tree and a file in the other.
Collisions(staging, deployed) ==
    {p \in Entries(staging) \cap Entries(deployed) :
        IsDir(staging, p) # IsDir(deployed, p)}

\* The deployed entry at p has the kind of the staging entry and its
\* content: the data of the file, or the files of the directory.
SameEntry(staging, deployed, p) ==
    /\ IsFile(staging, p) =>
          IsFile(deployed, p) /\ deployed.files[p].data = staging.files[p].data
    /\ IsDir(staging, p) =>
          /\ IsDir(deployed, p)
          /\ \A q \in DOMAIN staging.files :
                IsPrefix(p, q) =>
                   /\ IsFile(deployed, q)
                   /\ deployed.files[q].data = staging.files[q].data

\* deploy by Copy or HardLink on one volume, with no failure of the config,
\* of rules.txt or of the checkpoint.
FileDeployStep ==
    /\ last'.op = "deploy"
    /\ last'.method \in {"copy", "hard_link"}
    /\ last'.env = Unix
    /\ last'.stage \notin {"config", "rules", "save"}

\* C25: where a name is a directory in staging and a regular file in the
\* deployed tree, or the other way round, deploy by Copy or HardLink right
\* after a successful reset_pending returns Ok and leaves the deployed
\* entry with the kind and the content of the staging entry.
C25_KindReplaced ==
    [][(/\ last.op = "reset_pending" /\ last.ok
        /\ Collisions(merged.content, output.content.tree) # {}
        /\ FileDeployStep)
       => /\ last'.ok
          /\ \A p \in Collisions(merged.content, output.content.tree) :
                SameEntry(merged.content, output'.content.tree, p)]_vars

----------------------------------------------------------------------------
(* What Folder::delete removes and what it leaves.                          *)

\* The delete trees of the log by the deployed tree they are run against.
DeleteTrees ==
    [content |-> [phase |-> "1 content_deletes", folder |-> pending_log.content_deletes],
     aoc |-> [phase |-> "2 aoc_deletes", folder |-> pending_log.aoc_deletes]]

\* The first run has carried out every operation of the delete tree and
\* none of a copy tree.
DeleteDone(k) ==
    /\ last.op = "exec" /\ calls = 0
    /\ DeleteOps(DeleteTrees[k].phase, DeleteTrees[k].folder) \subseteq last.done
    /\ \A o \in last.done : o.phase \in DeletePhases

\* From the tree `start`, delete of the Folder has left the tree `now`:
\* the listed files are gone and every other file is as it was; a
\* directory that is gone was listed and nothing is left beneath it; a
\* directory above a file that is not listed is still there.
DeleteFrame(start, now, folder) ==
    /\ DOMAIN now.files = (DOMAIN start.files) \ FilePaths(folder)
    /\ \A p \in DOMAIN now.files : now.files[p] = start.files[p]
    /\ now.dirs \subseteq start.dirs
    /\ \A d \in start.dirs \ now.dirs :
          /\ d \in FolderDirs(folder)
          /\ \A q \in Entries(now) : ~IsPrefix(d, q)
    /\ \A d \in start.dirs :
          (\E p \in (DOMAIN start.files) \ FilePaths(folder) : IsPrefix(d, p))
              => d \in now.dirs

\* C26: the delete phase of a run removes the files its delete tree lists,
\* passing over a listed file that is missing without an error, removes a
\* listed directory only when nothing is left in it, and leaves every
\* other file, and every directory above such a file, as it was.
C26_DeleteFrame ==
    /\ \A k \in DOMAIN DeleteTrees :
          DeleteDone(k) =>
             DeleteFrame(last.start[k].tree, output[k].tree, DeleteTrees[k].folder)
    /\ (last.op = "exec" /\ last.err) =>
          \A k \in DOMAIN DeleteTrees :
             DeleteOps(DeleteTrees[k].phase, DeleteTrees[k].folder)
                \subseteq last.done

\* C26 witness: the delete phase is over for both trees; a listed file was
\* missing, a listed file and its directory are gone, and a file that is
\* not listed is still there.
C26_Witness ==
    /\ DeleteDone("content") /\ DeleteDone("aoc") /\ ~last.err
    /\ \E k \in DOMAIN DeleteTrees :
          \E p \in FilePaths(DeleteTrees[k].folder) : ~Exists(last.start[k].tree, p)
    /\ \E k \in DOMAIN DeleteTrees :
          /\ \E p \in FilePaths(DeleteTrees[k].folder) :
                IsFile(last.start[k].tree, p) /\ ~Exists(output[k].tree, p)
          /\ last.start[k].tree.dirs \ output[k].tree.dirs # {}
    /\ \E k \in DOMAIN DeleteTrees : DOMAIN output[k].tree.files # {}

----------------------------------------------------------------------------
(* The directories handle_orphans empties.                                  *)

\* The files of the tree beneath the directory d.
FilesBeneath(tree, d) == {p \in DOMAIN tree.files : IsPrefix(d, p)}

\* The directory d of the tree held only orphans: every file beneath it is
\* an orphan and every directory beneath it, d included, leads to a file.
OrphanOnly(tree, d, orphans) ==
    /\ d # <<>> /\ IsDir(tree, d)
    /\ FilesBeneath(tree, d) \subseteq orphans
    /\ \A e \in tree.dirs : IsPrefix(d, e) => FilesBeneath(tree, e) # {}

\* handle_orphans left no orphan in the tree and no directory that held
\* only orphans.
OrphansPruned(tree, tree2, orphans) ==
    /\ \A p \in orphans : ~Exists(tree2, p)
    /\ \A d \in tree.dirs : OrphanOnly(tree, d, orphans) => ~Exists(tree2, d)

\* C27: when handle_orphans has returned Ok (seen before unpacking writes
\* to the merged tree) every orphan is gone from the merged trees and so
\* is every directory that held nothing but orphans, at any depth.
C27_OrphanDirsPruned ==
    [][(OrphansHandled(last') /\ last'.stage \in {"extend_copies", "unpack"}) =>
        /\ OrphansPruned(merged.content, merged'.content,
                         OrphansOf(last').content_files)
        /\ OrphansPruned(merged.aoc, merged'.aoc, OrphansOf(last').aoc_files)]_vars

\* The same for the directory right above an orphan only.
OrphanParentsPruned ==
    [][(OrphansHandled(last') /\ last'.stage \in {"extend_copies", "unpack"}) =>
        \A p \in OrphansOf(last').content_files :
           /\ ~Exists(merged'.content, p)
           /\ (IsFile(merged.content, p)
               /\ FilesBeneath(merged.content, Parent(p)) = {p}
               /\ Parent(p) # <<>>)
              => ~Exists(merged'.content, Parent(p))]_vars

----------------------------------------------------------------------------
(* pending() and pending_len().                                             *)

\* C28: in every state of the manager, after calls that returned Ok and
\* calls that returned an error alike, pending() is true exactly when
\* pending_len() is greater than 0.
C28_PendingIffLen == LogHasSome(pending_log) <=> LogLen(pending_log) > 0

----------------------------------------------------------------------------
(* The deployed tree after reset_pending and deploy.                        *)

\* The deployed tree holds the files of the staging tree, each with the
\* staging file's modification time, and no other file.
InStep(staging, deployed) ==
    /\ DOMAIN deployed.files = DOMAIN staging.files
    /\ \A p \in DOMAIN staging.files :
          deployed.files[p].mtime = staging.files[p].mtime

\* reset_pending returned Ok and the next call, deploy by Copy or HardLink,
\* returns Ok.
ResetThenDeployed ==
    /\ last.op = "reset_pending" /\ last.ok
    /\ last'.op = "deploy" /\ last'.ok
    /\ last'.method \in {"copy", "hard_link"}

\* C29: when deploy by Copy or HardLink returns Ok right after a
\* successful reset_pending, the deployed trees hold exactly the staging
\* files with their modification times, and the comparison a further
\* reset_pending makes is empty.
C29_DeployFixpoint ==
    [][ResetThenDeployed =>
        /\ output'.content.link = "none" /\ output'.aoc.link = "none"
        /\ InStep(merged.content, output'.content.tree)
        /\ InStep(merged.aoc, output'.aoc.tree)
        /\ \A dir_time \in Times :
              ~LogHasSome(CompileLog(merged', Resolved(output', merged'),
                                     dir_time))]_vars

\* The same where neither destination was a symbolic link before the
\* deployment.
FixpointWithoutLinks ==
    [][(ResetThenDeployed /\ ~is_symlink(output.content) /\ ~is_symlink(output.aoc))
       => /\ InStep(merged.content, output'.content.tree)
          /\ InStep(merged.aoc, output'.aoc.tree)
          /\ \A dir_time \in Times :
                ~LogHasSome(CompileLog(merged', Resolved(output', merged'),
                                       dir_time))]_vars

----------------------------------------------------------------------------
(* apply and deploy called at the same time on one Manager.  Each call      *)
(* takes a step where it takes a lock on pending_log or writes to disk.     *)
(* deploy holds the read lock while it executes the log and lets go of it   *)
(* before it takes the write lock to clear the log; apply takes the write   *)
(* lock in handle_orphans, for extend_copies and for add_rstb.              *)

RaceLogs == {EmptyLog, SavedLog, CompileLog(InitMerged, Resolved(OutOld, InitMerged), 1)}
RaceManifests == {ModA, ModB, ManifestUnion({ModA, ModB})}
RaceTotals == {EmptyManifest, ModA, ManifestUnion({ModA, ModB})}

\* The entries of a log: the file paths of its four trees.
LogEntries(log) ==
    UNION {{<<k, p>> : p \in FilePaths(log[k])} : k \in DOMAIN log}

RaceInit ==
    /\ merged = InitMerged
    /\ output \in {OutFresh, OutOld}
    /\ pending_log \in RaceLogs
    /\ checkpoint = Saved(pending_log)
    /\ calls = 0
    /\ \E m \in RaceManifests, total \in RaceTotals,
          method \in {"copy", "hard_link"} :
          last = [op |-> "race", apply |-> "handle_orphans",
                  deploy |-> "execute", manifest |-> m, total |-> total,
                  method |-> method, executed |-> EmptyLog, late |-> {}]

\* The entries a step of apply adds while deploy is between the execution
\* of the log and its clear.
Late(log2) ==
    IF last.deploy = "clear"
    THEN last.late \cup (LogEntries(log2) \ LogEntries(pending_log))
    ELSE last.late

\* apply: self.handle_orphans(total_manifest, &mut manifest, ..)?
RaceOrphans ==
    /\ last.op = "race" /\ last.apply = "handle_orphans"
    /\ \E order_c \in Perms(last.manifest.content_files \ last.total.content_files),
          order_a \in Perms(last.manifest.aoc_files \ last.total.aoc_files) :
          \E r \in {handle_orphans(pending_log, merged, last.total,
                                   last.manifest, order_c, order_a)} :
             /\ pending_log' = r.log
             /\ merged' = r.out_dir
             /\ last' = [last EXCEPT
                           !.apply = IF r.ok THEN "extend_copies" ELSE "failed",
                           !.manifest = r.manifest,
                           !.late = Late(r.log)]
    /\ UNCHANGED <<output, checkpoint, calls>>

\* apply: self.pending_log.write().extend_copies(&manifest)?
RaceExtend ==
    /\ last.op = "race" /\ last.apply = "extend_copies"
    /\ \E r \in {extend_copies(pending_log, last.manifest)} :
          /\ pending_log' = r.log
          /\ last' = [last EXCEPT
                        !.apply = IF r.ok THEN "unpack" ELSE "failed",
                        !.late = Late(r.log)]
    /\ UNCHANGED <<merged, output, checkpoint, calls>>

\* apply: unpacker.unpack()?
RaceUnpack ==
    /\ last.op = "race" /\ last.apply = "unpack"
    /\ merged' = unpack(merged, last.manifest, File(2, 2))
    /\ last' = [last EXCEPT !.apply = "apply_rstb"]
    /\ UNCHANGED <<output, pending_log, checkpoint, calls>>

\* apply: self.apply_rstb(..)?
RaceRstb ==
    /\ last.op = "race" /\ last.apply = "apply_rstb"
    /\ \E r \in {apply_rstb(pending_log, merged.content, NoUpdates, 2, TRUE)} :
          /\ pending_log' = r.log
          /\ merged' = [merged EXCEPT !.content = r.content]
          /\ last' = [last EXCEPT
                        !.apply = IF r.ok THEN "save" ELSE "failed",
                        !.late = Late(r.log)]
    /\ UNCHANGED <<output, checkpoint, calls>>

\* apply: self.save()?
RaceApplySave ==
    /\ last.op = "race" /\ last.apply = "save"
    /\ checkpoint' = Saved(pending_log)
    /\ last' = [last EXCEPT !.apply = "done"]
    /\ UNCHANGED <<merged, output, pending_log, calls>>

\* deploy: from `let log = self.pending_log.read()` to the end of the
\* block, where the guard is dropped.
RaceExecute ==
    /\ last.op = "race" /\ last.deploy = "execute"
    /\ \E r \in {DeployFiles(Unix, last.method, pending_log, merged, output)} :
          /\ output' = r.out
          /\ last' = [last EXCEPT
                        !.deploy = IF r.ok THEN "clear" ELSE "failed",
                        !.executed = pending_log]
    /\ UNCHANGED <<merged, pending_log, checkpoint, calls>>

\* deploy: self.pending_log.write().clear()
RaceClear ==
    /\ last.op = "race" /\ last.deploy = "clear"
    /\ pending_log' = clear(pending_log)
    /\ last' = [last EXCEPT !.deploy = "save"]
    /\ UNCHANGED <<merged, output, checkpoint, calls>>

\* deploy: self.save()?
RaceDeploySave ==
    /\ last.op = "race" /\ last.deploy = "save"
    /\ checkpoint' = Saved(pending_log)
    /\ last' = [last EXCEPT !.deploy = "done"]
    /\ UNCHANGED <<merged, output, pending_log, calls>>

NextRace ==
    \/ RaceOrphans \/ RaceExtend \/ RaceUnpack \/ RaceRstb \/ RaceApplySave
    \/ RaceExecute \/ RaceClear \/ RaceDeploySave

SpecRace == RaceInit /\ [][NextRace]_vars

Returned(pc) == pc \in {"done", "failed"}

\* C30: the entries deploy clears from the pending log are entries it has
\* executed; and when both calls have returned, an entry apply added
\* between deploy's execution of the log and its clear is in the log or
\* was executed.
C30_NoEntryLost ==
    [][(last.op = "race" /\ last'.op = "race") =>
        /\ (last.deploy = "clear" /\ last'.deploy = "save") =>
              LogEntries(pending_log) \subseteq LogEntries(last.executed)
        /\ (Returned(last'.apply) /\ Returned(last'.deploy)) =>
              last'.late \subseteq LogEntries(pending_log')
                                   \cup LogEntries(last'.executed)]_vars

\* The same for the runs in which apply adds nothing between deploy's
\* execution of the log and its clear.
NoEntryLostWithoutLate ==
    [][(/\ last.op = "race" /\ last'.op = "race" /\ last'.late = {}
        /\ last.deploy = "clear" /\ last'.deploy = "save")
       => LogEntries(pending_log) \subseteq LogEntries(last.executed)]_vars

====
